---- MODULE Spec2Model ----
(***************************************************************************)
(* Model of the algebra layer of the query optimizer: the rewrite rules    *)
(* of optimizer/rules.py, the cost estimator of                            *)
(* optimizer/cost_calculator.py and the heuristic plan enumerator of       *)
(* optimizer/plan_optimizer.py.                                            *)
(*                                                                         *)
(* Algebra nodes are Python objects that the rules mutate in place and     *)
(* share by reference, so the model keeps an object heap: a sequence of    *)
(* node records whose index is the object's identity.  A node record is    *)
(* [type, val, childs] with childs a sequence of object ids.  Condition    *)
(* expressions are never mutated by the rules and are kept as values.      *)
(*                                                                         *)
(* Costs are Python floats; the model computes them in binary64 with the   *)
(* rounding of each operation, since the enumerator compares them.         *)
(***************************************************************************)
EXTENDS Integers, Sequences, FiniteSets, TLC

\* Python's None, as an object id that is no object.
None == 0

VARIABLES
    heap,       \* the objects: heap[id] = [type, val, childs]
    root,       \* the tree the next rule is applied to (an object id)
    hashOrder,  \* the iteration order of this process's string sets
    prevHeap,   \* the heap before the last operation
    prevRoot,   \* the tree the last operation was applied to
    prev2Heap,  \* the heap before the last two operations
    prev2Root,  \* the tree the operation before the last was applied to
    last,       \* the last operation
    last2,      \* the operation before it
    steps,      \* how many rules have been applied
    best,       \* optimize_tree: the tree of the returned ParsedQuery
    plans,      \* optimize_tree: plan_results, as [tree, cost] records
    cost,       \* get_cost: the number returned
    selectivity, \* get_cost: the selectivity estimated for the SELECT at the root
    params,     \* the genetic enumerator: population_size, iterations, mutation_rate
    population, \* the genetic enumerator: the population
    children,   \* the genetic enumerator: the rule sequences of two children
    statistics  \* the Statistics object of the calculator: its relations now,
                \* and as they were when it was handed to the calculator

genetic == <<params, population, children>>

vars == <<heap, root, hashOrder, prevHeap, prevRoot, prev2Heap, prev2Root,
          last, last2, steps, best, plans, cost, selectivity, genetic, statistics>>

----------------------------------------------------------------------------
(* Strings that the code inspects character by character are sequences of  *)
(* one-character strings.                                                  *)

\* s[i..] starts with p
StartsAt(s, p, i) ==
    /\ i + Len(p) - 1 <= Len(s)
    /\ \A j \in 1..Len(p) : s[i + j - 1] = p[j]

\* Python: s.startswith(p)
StartsWith(s, p) == StartsAt(s, p, 1)

\* Python: p in s
IsSubstring(p, s) == \E i \in 1..(Len(s) + 1) : StartsAt(s, p, i)

Range(s) == {s[i] : i \in 1..Len(s)}

RECURSIVE Reverse(_)
Reverse(s) == IF s = <<>> THEN <<>> ELSE Append(Reverse(Tail(s)), Head(s))

----------------------------------------------------------------------------
(* Condition expressions (tree/nodes: ConditionLeaf, ConditionOperator).   *)
(* A leaf carries the qualified identifiers its text contains, in textual  *)
(* order, and the characters of its comparison operator.                   *)

ConditionLeaf(attrs, cmp) == [kind |-> "leaf", attrs |-> attrs, cmp |-> cmp]

ConditionOperator(operator, left, right) ==
    [kind |-> "op", operator |-> operator, left |-> left, right |-> right]

\* An attribute reference "q.c" (q = <<>> for an unqualified name "c").
Attr(q, c) == [q |-> q, c |-> c]

----------------------------------------------------------------------------
(* Algebra nodes and the object heap.                                      *)

\* Node values.  A SELECT, JOIN or HASH-JOIN carries a condition expression,
\* a TABLE its relation name, a PROJECT an attribute list (a Python list from
\* the front-end, a joined string once a rule has written it), a LIMIT an
\* integer, and a NATURAL-JOIN or CARTESIAN-PRODUCT carries None.
NameVal(name)  == [kind |-> "name", name |-> name]
ListVal(attrs) == [kind |-> "list", attrs |-> attrs]
NoVal          == [kind |-> "none"]
IntVal(n)      == [kind |-> "int", n |-> n]

\* QueryTree(type, val, [], None): a new object on the heap.
QueryTree(h, type, val) ==
    [h |-> Append(h, [type |-> type, val |-> val, childs |-> <<>>]),
     r |-> Len(h) + 1]

\* parent.add_child(child)
add_child(h, parent, child) ==
    [h EXCEPT ![parent].childs = Append(@, child)]

\* A new node with the given children: the constructor followed by
\* add_child for each.
RECURSIVE AddAll(_, _, _)
AddAll(h, parent, cs) ==
    IF cs = <<>> THEN h
    ELSE AddAll(add_child(h, parent, Head(cs)), parent, Tail(cs))

NewNode(h, type, val, cs) ==
    LET a == QueryTree(h, type, val)
    IN  [h |-> AddAll(a.h, a.r, cs), r |-> a.r]

\* Builds the objects of a tree given as a value; children first.
RECURSIVE Build(_, _)
RECURSIVE BuildAll(_, _, _)
BuildAll(h, vs, acc) ==
    IF vs = <<>> THEN [h |-> h, rs |-> acc]
    ELSE LET b == Build(h, Head(vs))
         IN  BuildAll(b.h, Tail(vs), Append(acc, b.r))

Build(h, v) ==
    LET cs == BuildAll(h, v.childs, <<>>)
    IN  NewNode(cs.h, v.type, v.val, cs.rs)

----------------------------------------------------------------------------
(* rules.py: helpers.                                                      *)

\* _extract_and_conditions: the atoms of a condition, flattened in order
\* through AND operators only.
RECURSIVE _extract_and_conditions(_)
\* A variant that flattens through every operator, OR included.
_extract_conditions_of_any_operator(c) ==
    IF c.kind = "op"
    THEN _extract_and_conditions(c.left) \o _extract_and_conditions(c.right)
    ELSE <<c>>

_extract_and_conditions(c) ==
    IF c.kind = "op" /\ c.operator = "AND"
    THEN _extract_and_conditions(c.left) \o _extract_and_conditions(c.right)
    ELSE <<c>>

\* _get_attributes_from_condition: the qualified identifiers of a condition
\* (a set: the code removes duplicates and the order is never used).
RECURSIVE _get_attributes_from_condition(_)
_get_attributes_from_condition(c) ==
    IF c.kind = "leaf" THEN Range(c.attrs)
    ELSE IF c.kind = "op"
         THEN _get_attributes_from_condition(c.left)
              \cup _get_attributes_from_condition(c.right)
         ELSE {}

\* ', '.join(attrs): the text of a projection list, as its pieces.
Separator == [sep |-> ", "]

RECURSIVE JoinAttrs(_)
JoinAttrs(attrs) ==
    IF attrs = <<>> THEN <<>>
    ELSE IF Len(attrs) = 1 THEN <<attrs[1]>>
    ELSE <<attrs[1], Separator>> \o JoinAttrs(Tail(attrs))

StrVal(attrs) == [kind |-> "str", text |-> JoinAttrs(attrs)]

\* [attr.strip() for attr in text.split(',')]: the empty text splits into
\* one empty attribute.
SplitAttrs(text) ==
    IF text = <<>> THEN <<Attr(<<>>, "")>>
    ELSE SelectSeq(text, LAMBDA p : p # Separator)

\* The attribute list a PROJECT value denotes (a list, or a joined string).
ProjectAttrs(val) ==
    IF val.kind = "str" THEN SplitAttrs(val.text) ELSE val.attrs

\* _get_attributes_from_tree: what a subtree offers: "name.*" for every
\* TABLE and the attributes of every PROJECT below it.  Table nodes carry no
\* alias attribute.
RECURSIVE _get_attributes_from_tree(_, _)
RECURSIVE TreeAttrsAll(_, _)
TreeAttrsAll(h, cs) ==
    IF cs = <<>> THEN {}
    ELSE _get_attributes_from_tree(h, Head(cs)) \cup TreeAttrsAll(h, Tail(cs))

_get_attributes_from_tree(h, t) ==
    (IF h[t].type = "TABLE" THEN {Attr(h[t].val.name, "*")}
     ELSE IF h[t].type = "PROJECT" THEN Range(ProjectAttrs(h[t].val))
     ELSE {})
    \cup TreeAttrsAll(h, h[t].childs)

\* _attribute_belongs_to: an attribute without a '.' belongs nowhere; a
\* qualified one belongs where its prefix is a substring (or a prefix) of the
\* table name of an offered "name.*", or where an offered attribute starts
\* with "prefix.".
_attribute_belongs_to(attr, table_attrs) ==
    /\ attr.q # <<>>
    /\ \E ta \in table_attrs :
          \/ /\ ta.q # <<>>
             /\ ta.c = "*"
             /\ (IsSubstring(attr.q, ta.q) \/ StartsWith(ta.q, attr.q))
          \/ ta.q = attr.q

\* The conjunction the code folds from a non-empty list of conditions.
RECURSIVE CombineAnd(_, _)
CombineAnd(acc, conds) ==
    IF conds = <<>> THEN acc
    ELSE CombineAnd(ConditionOperator("AND", acc, Head(conds)), Tail(conds))

\* A chain of SELECT nodes above child, one per condition, built bottom-up
\* from the reversed list.
RECURSIVE SelectChain(_, _, _)
RECURSIVE SelectChainWithoutOutermost(_, _, _)
\* A variant that leaves out the SELECT of the first condition.
SelectChainWithoutOutermost(h, revconds, child) ==
    IF Len(revconds) <= 1 THEN [h |-> h, r |-> child]
    ELSE LET n == NewNode(h, "SELECT", Head(revconds), <<child>>)
         IN  SelectChainWithoutOutermost(n.h, Tail(revconds), n.r)

SelectChain(h, revconds, child) ==
    IF revconds = <<>> THEN [h |-> h, r |-> child]
    ELSE LET n == NewNode(h, "SELECT", Head(revconds), <<child>>)
         IN  SelectChain(n.h, Tail(revconds), n.r)

\* _decompose_conjunctive_selection
_decompose_conjunctive_selection(h, s) ==
    LET child == IF h[s].childs # <<>> THEN h[s].childs[1] ELSE None
        and_conditions == _extract_and_conditions(h[s].val)
    IN  IF child = None THEN [h |-> h, r |-> s]
        ELSE IF Len(and_conditions) <= 1 THEN [h |-> h, r |-> s]
        ELSE SelectChain(h, Reverse(and_conditions), child)

----------------------------------------------------------------------------
(* rules.py: the rules.  Each takes the heap and a tree and returns the    *)
(* heap it leaves and the tree it returns, [h, r].                         *)

\* push_down_selection (R1)
RECURSIVE push_down_selection(_, _)
RECURSIVE pds_childs(_, _, _)
pds_childs(h, t, i) ==
    IF i > Len(h[t].childs) THEN h
    ELSE LET c == push_down_selection(h, h[t].childs[i])
         IN  pds_childs([c.h EXCEPT ![t].childs[i] = c.r], t, i + 1)

\* A variant that returns the chain it builds for a conjunctive SELECT
\* without visiting what is below it.
push_down_selection_without_descent(h, t) ==
    IF t = None THEN [h |-> h, r |-> None]
    ELSE IF h[t].type = "SELECT" /\ _decompose_conjunctive_selection(h, t).r # t
         THEN _decompose_conjunctive_selection(h, t)
    ELSE [h |-> pds_childs(h, t, 1), r |-> t]

push_down_selection(h, t) ==
    IF t = None THEN [h |-> h, r |-> None]
    ELSE LET h1 == pds_childs(h, t, 1)
         IN  IF h1[t].type = "SELECT"
             THEN LET d == _decompose_conjunctive_selection(h1, t)
                  IN  IF d.r # t THEN push_down_selection(d.h, d.r) ELSE d
             ELSE [h |-> h1, r |-> t]

\* combine_selections (R3)
RECURSIVE combine_selections(_, _)
RECURSIVE cs_childs(_, _, _)
cs_childs(h, t, i) ==
    IF i > Len(h[t].childs) THEN h
    ELSE LET c == combine_selections(h, h[t].childs[i])
         IN  cs_childs([c.h EXCEPT ![t].childs[i] = c.r], t, i + 1)

\* A variant that puts the child's condition first.
combine_selections_child_first(h, t) ==
    IF t = None THEN [h |-> h, r |-> None]
    ELSE IF /\ h[t].type = "SELECT"
            /\ h[t].childs # <<>>
            /\ h[h[t].childs[1]].type = "SELECT"
         THEN NewNode(h, "SELECT",
                      ConditionOperator("AND", h[h[t].childs[1]].val, h[t].val),
                      h[h[t].childs[1]].childs)
         ELSE [h |-> cs_childs(h, t, 1), r |-> t]

combine_selections(h, t) ==
    IF t = None THEN [h |-> h, r |-> None]
    ELSE IF /\ h[t].type = "SELECT"
            /\ h[t].childs # <<>>
            /\ h[h[t].childs[1]].type = "SELECT"
         THEN LET child_selection == h[t].childs[1]
                  combined_condition ==
                      ConditionOperator("AND", h[t].val, h[child_selection].val)
              IN  NewNode(h, "SELECT", combined_condition,
                          IF h[child_selection].childs # <<>>
                          THEN <<h[child_selection].childs[1]>> ELSE <<>>)
         ELSE [h |-> cs_childs(h, t, 1), r |-> t]

\* swap_selection (R2)
RECURSIVE swap_selection(_, _)
RECURSIVE ss_childs(_, _, _)
ss_childs(h, t, i) ==
    IF i > Len(h[t].childs) THEN h
    ELSE LET c == swap_selection(h, h[t].childs[i])
         IN  ss_childs([c.h EXCEPT ![t].childs[i] = c.r], t, i + 1)

swap_selection(h, t) ==
    IF t = None THEN [h |-> h, r |-> None]
    ELSE IF \/ h[t].type # "SELECT"
            \/ h[t].childs = <<>>
            \/ h[h[t].childs[1]].type # "SELECT"
         THEN [h |-> ss_childs(h, t, 1), r |-> t]
         ELSE LET child_selection == h[t].childs[1]
                  grandchild == IF h[child_selection].childs # <<>>
                                THEN h[child_selection].childs[1] ELSE None
              IN  IF grandchild = None THEN [h |-> h, r |-> t]
                  ELSE LET new_parent == QueryTree(h, "SELECT", h[child_selection].val)
                           new_child  == NewNode(new_parent.h, "SELECT", h[t].val,
                                                 <<grandchild>>)
                           h2 == add_child(new_child.h, new_parent.r, new_child.r)
                       IN  [h |-> ss_childs(h2, new_parent.r, 1), r |-> new_parent.r]

\* combine_cartesian_with_selection (R4), reorder_joins (R5) and
\* apply_associativity (R6) return the tree they are given.
combine_cartesian_with_selection(h, t) == [h |-> h, r |-> t]

reorder_joins(h, t) == [h |-> h, r |-> t]

apply_associativity(h, t) == [h |-> h, r |-> t]

\* distribute_selection_over_join (R7)
RECURSIVE distribute_selection_over_join(_, _)
RECURSIVE dsoj_childs(_, _, _)
dsoj_childs(h, t, i) ==
    IF i > Len(h[t].childs) THEN h
    ELSE LET c == distribute_selection_over_join(h, h[t].childs[i])
         IN  dsoj_childs([c.h EXCEPT ![t].childs[i] = c.r], t, i + 1)

\* A variant that sends an atom to the left as soon as the left side offers
\* all its attributes.
SideLeftFirst(cond, left_attrs, right_attrs) ==
    LET cond_attrs == _get_attributes_from_condition(cond)
        is_left  == \A a \in cond_attrs : _attribute_belongs_to(a, left_attrs)
        is_right == \A a \in cond_attrs : _attribute_belongs_to(a, right_attrs)
    IN  IF cond_attrs = {} THEN "both"
        ELSE IF is_left THEN "left"
        ELSE IF is_right THEN "right"
        ELSE "both"

\* The buckets of the atoms of a condition: "left", "right" or "both".
Side(cond, left_attrs, right_attrs) ==
    LET cond_attrs == _get_attributes_from_condition(cond)
        is_left  == \A a \in cond_attrs : _attribute_belongs_to(a, left_attrs)
        is_right == \A a \in cond_attrs : _attribute_belongs_to(a, right_attrs)
    IN  IF cond_attrs = {} THEN "both"
        ELSE IF is_left /\ ~is_right THEN "left"
        ELSE IF is_right /\ ~is_left THEN "right"
        ELSE "both"

\* A SELECT of the conjunction of conds above sub, or sub itself when conds
\* is empty.
\* Variant: the new SELECT is created without its child being attached.
SelectOverChildless(h, conds, sub) ==
    IF conds = <<>> THEN [h |-> h, r |-> sub]
    ELSE NewNode(h, "SELECT", CombineAnd(Head(conds), Tail(conds)), <<>>)

SelectOver(h, conds, sub) ==
    IF conds = <<>> THEN [h |-> h, r |-> sub]
    ELSE NewNode(h, "SELECT", CombineAnd(Head(conds), Tail(conds)), <<sub>>)

distribute_selection_over_join(h, t) ==
    IF t = None THEN [h |-> h, r |-> None]
    ELSE
    LET h1 == dsoj_childs(h, t, 1)
        same == [h |-> h1, r |-> t]
    IN  IF h1[t].type # "SELECT" \/ h1[t].childs = <<>> THEN same
        ELSE
        LET child == h1[t].childs[1]
        IN  IF h1[child].type \notin {"JOIN", "NATURAL-JOIN"} THEN same
            ELSE
            LET left_subtree  == IF Len(h1[child].childs) > 0
                                 THEN h1[child].childs[1] ELSE None
                right_subtree == IF Len(h1[child].childs) > 1
                                 THEN h1[child].childs[2] ELSE None
            IN  IF left_subtree = None \/ right_subtree = None THEN same
                ELSE
                LET left_attrs  == _get_attributes_from_tree(h1, left_subtree)
                    right_attrs == _get_attributes_from_tree(h1, right_subtree)
                    and_conditions == _extract_and_conditions(h1[t].val)
                    bucket(b) == SelectSeq(and_conditions,
                                   LAMBDA c : Side(c, left_attrs, right_attrs) = b)
                    new_left  == SelectOver(h1, bucket("left"), left_subtree)
                    new_right == SelectOver(new_left.h, bucket("right"), right_subtree)
                    new_join  == NewNode(new_right.h, h1[child].type, h1[child].val,
                                         <<new_left.r, new_right.r>>)
                IN  SelectOver(new_join.h, bucket("both"), new_join.r)

\* list(set(attrs)): the attributes in the set's iteration order.
SetToList(S) == SelectSeq(hashOrder, LAMBDA a : a \in S)

\* The chain of SELECT nodes from t down, and the first node below it (None
\* when a SELECT of the chain has no child).
RECURSIVE SkipSelects(_, _, _)
SkipSelects(h, t, acc) ==
    IF t # None /\ h[t].type = "SELECT"
    THEN SkipSelects(h, IF h[t].childs # <<>> THEN h[t].childs[1] ELSE None,
                     Append(acc, t))
    ELSE [join_node |-> t, intermediate_nodes |-> acc]

\* New copies of the SELECT nodes sels (given innermost first) above current.
RECURSIVE RebuildSelects(_, _, _)
RECURSIVE RebuildSelectsOutermostFirst(_, _, _)
\* A variant that takes the nodes from the other end of the list.
RebuildSelectsOutermostFirst(h, sels, current) ==
    IF sels = <<>> THEN [h |-> h, r |-> current]
    ELSE LET s == sels[Len(sels)]
             n == NewNode(h, h[s].type, h[s].val, <<current>>)
         IN  RebuildSelectsOutermostFirst(n.h, SubSeq(sels, 1, Len(sels) - 1), n.r)

RebuildSelects(h, sels, current) ==
    IF sels = <<>> THEN [h |-> h, r |-> current]
    ELSE LET n == NewNode(h, h[Head(sels)].type, h[Head(sels)].val, <<current>>)
         IN  RebuildSelects(n.h, Tail(sels), n.r)

\* A PROJECT of attrs (written as a joined string) above sub, or sub itself
\* when attrs is empty.
ProjectOver(h, attrs, sub) ==
    IF attrs = <<>> THEN [h |-> h, r |-> sub]
    ELSE NewNode(h, "PROJECT", StrVal(attrs), <<sub>>)

\* _helper_distribute_projection_over_join (R8)
_helper_distribute_projection_over_join(h, t) ==
    LET same == [h |-> h, r |-> t]
    IN  IF h[t].type # "PROJECT" \/ h[t].childs = <<>> THEN same
        ELSE
        LET skip == SkipSelects(h, h[t].childs[1], <<>>)
            join_node == skip.join_node
        IN  IF join_node = None THEN same
            ELSE IF h[join_node].type \notin {"JOIN", "NATURAL-JOIN"} THEN same
            ELSE IF Len(h[join_node].childs) < 2 THEN same
            ELSE
            LET project_attrs == ProjectAttrs(h[t].val)
                left_subtree  == h[join_node].childs[1]
                right_subtree == h[join_node].childs[2]
                left_attrs  == _get_attributes_from_tree(h, left_subtree)
                right_attrs == _get_attributes_from_tree(h, right_subtree)
                join_attrs  == _get_attributes_from_condition(h[join_node].val)
                \* left if it belongs left, else right if it belongs right,
                \* else left by default
                L1 == SelectSeq(project_attrs,
                        LAMBDA a : \/ _attribute_belongs_to(a, left_attrs)
                                   \/ ~_attribute_belongs_to(a, right_attrs))
                L2 == SelectSeq(project_attrs,
                        LAMBDA a : /\ ~_attribute_belongs_to(a, left_attrs)
                                   /\ _attribute_belongs_to(a, right_attrs))
                L3 == {a \in join_attrs : /\ a \notin Range(L1)
                                          /\ _attribute_belongs_to(a, left_attrs)}
                L4 == {a \in join_attrs : /\ a \notin Range(L2)
                                          /\ _attribute_belongs_to(a, right_attrs)}
                new_left  == ProjectOver(h, SetToList(Range(L1) \cup L3), left_subtree)
                new_right == ProjectOver(new_left.h, SetToList(Range(L2) \cup L4),
                                         right_subtree)
                new_join  == NewNode(new_right.h, h[join_node].type, h[join_node].val,
                                     <<new_left.r, new_right.r>>)
                current   == RebuildSelects(new_join.h, Reverse(skip.intermediate_nodes),
                                            new_join.r)
            IN  IF L3 # {} \/ L4 # {}
                THEN NewNode(current.h, "PROJECT", StrVal(project_attrs), <<current.r>>)
                ELSE current

\* distribute_projection_over_join (R8)
distribute_projection_over_join(h, t) ==
    _helper_distribute_projection_over_join(h, t)

\* push_down_projection (push-pi).  After the bottom-up pass a node that is
\* not a PROJECT runs a second loop over its children that stores every
\* result in the slot the first loop ended on, the last one.
RECURSIVE push_down_projection(_, _)
RECURSIVE pdp_childs(_, _, _)
RECURSIVE pdp_again(_, _, _)
pdp_childs(h, t, i) ==
    IF i > Len(h[t].childs) THEN h
    ELSE LET c == push_down_projection(h, h[t].childs[i])
         IN  pdp_childs([c.h EXCEPT ![t].childs[i] = c.r], t, i + 1)

pdp_again(h, t, j) ==
    IF j > Len(h[t].childs) THEN h
    ELSE LET c == push_down_projection(h, h[t].childs[j])
         IN  pdp_again([c.h EXCEPT ![t].childs[Len(h[t].childs)] = c.r], t, j + 1)

push_down_projection(h, t) ==
    IF t = None THEN [h |-> h, r |-> None]
    ELSE LET h1 == pdp_childs(h, t, 1)
         IN  IF h1[t].type = "PROJECT"
             THEN _helper_distribute_projection_over_join(h1, t)
             ELSE [h |-> pdp_again(h1, t, 1), r |-> t]

----------------------------------------------------------------------------
(* Python numbers.  Every cost and selectivity is a Python float: an IEEE  *)
(* 754 binary64 value, each operation rounded to nearest, ties to even.    *)
(* The integers of the calculator (block counts, 0) are far below 2^53,    *)
(* where int and float arithmetic agree, so one representation serves.     *)
(* A natural number is a sequence of limbs, least significant first; a     *)
(* float is a sign with a magnitude, zero or m * 2^e with m a natural      *)
(* number of exactly MantDig bits.  Exponents are unbounded: costs stay    *)
(* far from the overflow and underflow thresholds of binary64.             *)

\* bits per limb, and the limb base 2^LimbBits
LimbBits == 14
Base == 16384

\* sys.float_info.mant_dig
MantDig == 53

Max(x, y) == IF x >= y THEN x ELSE y
Min(x, y) == IF x <= y THEN x ELSE y

\* F at the value of u (and of v): the argument is computed once, as Python
\* computes an operand before it calls.
With(u, F(_)) == CHOOSE r \in {F(x) : x \in {u}} : TRUE
With2(u, v, F(_, _)) == CHOOSE r \in {F(x, y) : x \in {u}, y \in {v}} : TRUE

Limb(a, i) == IF i \in 1..Len(a) THEN a[i] ELSE 0

\* digits (any integers) to limbs, carrying upwards
RECURSIVE Carry(_, _)
Carry(d, c) ==
    IF d = <<>> THEN IF c = 0 THEN <<>> ELSE <<c % Base>> \o Carry(<<>>, c \div Base)
    ELSE LET s == Head(d) + c IN <<s % Base>> \o Carry(Tail(d), s \div Base)

BAdd(a, b) == Carry([i \in 1..Max(Len(a), Len(b)) |-> Limb(a, i) + Limb(b, i)], 0)

\* a - b for a >= b
BSub(a, b) == Carry([i \in 1..Max(Len(a), Len(b)) |-> Limb(a, i) - Limb(b, i)], 0)

RECURSIVE Conv(_, _, _, _)
Conv(a, b, k, i) ==
    IF i > Len(a) THEN 0 ELSE Limb(a, i) * Limb(b, k + 1 - i) + Conv(a, b, k, i + 1)

BMul(a, b) == Carry([k \in 1..(Len(a) + Len(b)) |-> Conv(a, b, k, 1)], 0)

\* a * 2^n
BShl(a, n) ==
    [i \in 1..(n \div LimbBits) |-> 0]
        \o Carry([i \in 1..Len(a) |-> a[i] * 2^(n % LimbBits)], 0)

\* floor(a / 2^n)
BShr(a, n) ==
    LET q == n \div LimbBits
        r == n % LimbBits
    IN  [i \in 1..Max(Len(a) - q, 0) |->
            (Limb(a, i + q) \div 2^r) + (Limb(a, i + q + 1) % 2^r) * 2^(LimbBits - r)]

\* a mod 2^n = 0
BLowZero(a, n) ==
    /\ \A i \in 1..(n \div LimbBits) : Limb(a, i) = 0
    /\ Limb(a, n \div LimbBits + 1) % 2^(n % LimbBits) = 0

\* bit i of a, bit 0 the least significant
Bit(a, i) == (Limb(a, i \div LimbBits + 1) \div 2^(i % LimbBits)) % 2

RECURSIVE Top(_)
Top(a) == IF a = <<>> THEN 0
          ELSE IF a[Len(a)] # 0 THEN Len(a)
          ELSE Top(SubSeq(a, 1, Len(a) - 1))

RECURSIVE Bits(_)
Bits(n) == IF n = 0 THEN 0 ELSE 1 + Bits(n \div 2)

BitLen(a) == IF Top(a) = 0 THEN 0 ELSE LimbBits * (Top(a) - 1) + Bits(a[Top(a)])

RECURSIVE BLessFrom(_, _, _)
BLessFrom(a, b, i) ==
    IF i = 0 THEN FALSE
    ELSE IF Limb(a, i) # Limb(b, i) THEN Limb(a, i) < Limb(b, i)
    ELSE BLessFrom(a, b, i - 1)

\* floor(a / d) and a mod d for a small divisor d, from limb i downwards
RECURSIVE DivSmall(_, _, _, _)
DivSmall(a, d, i, r) ==
    IF i = 0 THEN [q |-> <<>>, r |-> r]
    ELSE LET cur  == r * Base + a[i]
             rest == DivSmall(a, d, i - 1, cur % d)
         IN  [q |-> Append(rest.q, cur \div d), r |-> rest.r]

\* the limbs of a mantissa
Mant(a) == [i \in 1..((MantDig + LimbBits - 1) \div LimbBits) |-> Limb(a, i)]

\* the magnitude of 0.0
NoBits == [m |-> Mant(<<>>), e |-> 0]

\* q * 2^e for a natural number q of MantDig or MantDig + 1 bits
Normal(q, e) ==
    IF BitLen(q) > MantDig THEN [m |-> Mant(BShr(q, 1)), e |-> e + 1]
    ELSE [m |-> Mant(q), e |-> e]

\* The float nearest to x * 2^e for a natural number x of n bits, ties to
\* the even mantissa: s bits are rounded away.
RoundBits(x, n, s, e) ==
    IF n = 0 THEN NoBits
    ELSE IF n <= MantDig
         THEN [m |-> Mant(BShl(x, MantDig - n)), e |-> e - (MantDig - n)]
    ELSE IF Bit(x, s - 1) = 1 /\ (~BLowZero(x, s - 1) \/ Bit(x, s) = 1)
         THEN With(BAdd(BShr(x, s), <<1>>), LAMBDA q : Normal(q, e + s))
    ELSE [m |-> Mant(BShr(x, s)), e |-> e + s]

Round(x, e) ==
    With(x, LAMBDA v : With(BitLen(v), LAMBDA n : RoundBits(v, n, n - MantDig, e)))

\* The magnitude nearest to x / d / 2^(5 * LimbBits) for natural numbers x
\* and d (d below Base).
Ratio(x, d) ==
    With(DivSmall(x, d, Len(x), 0),
         LAMBDA dv : Round(BAdd(BShl(dv.q, 1), IF dv.r = 0 THEN <<>> ELSE <<1>>),
                           0 - 5 * LimbBits - 1))

Product(x, y) == IF x = NoBits \/ y = NoBits THEN NoBits
                 ELSE Round(BMul(x.m, y.m), x.e + y.e)

Sum(x, y) ==
    IF x = NoBits THEN y
    ELSE IF y = NoBits THEN x
    ELSE Round(BAdd(BShl(x.m, x.e - Min(x.e, y.e)), BShl(y.m, y.e - Min(x.e, y.e))),
               Min(x.e, y.e))

\* x - y for x >= y
Difference(x, y) ==
    IF y = NoBits THEN x
    ELSE Round(BSub(BShl(x.m, x.e - Min(x.e, y.e)), BShl(y.m, y.e - Min(x.e, y.e))),
               Min(x.e, y.e))

\* x < y for magnitudes
Below(x, y) ==
    IF y = NoBits THEN FALSE
    ELSE IF x = NoBits THEN TRUE
    ELSE IF x.e # y.e THEN x.e < y.e
    ELSE BLessFrom(x.m, y.m, Len(x.m))

\* A float is a magnitude with a sign; 0.0 and -0.0 are two values that
\* compare equal.
Magnitude(x) == [m |-> x.m, e |-> x.e]
Signed(neg, a) == With(a, LAMBDA v : [m |-> v.m, e |-> v.e, neg |-> neg])

Zero == Signed(FALSE, NoBits)

\* n / d for an int n and a natural number d: the division of two ints, and
\* the value of a decimal literal.
Float(n, d) ==
    With(BShl(Carry(<<IF n < 0 THEN 0 - n ELSE n>>, 0), 5 * LimbBits),
         LAMBDA x : Signed(n < 0, Ratio(x, d)))

FNeg(x) == Signed(~x.neg, Magnitude(x))

\* x * y, x + y, x - y
FMul(x, y) ==
    With2(x, y, LAMBDA a, b : Signed(a.neg # b.neg, Product(Magnitude(a), Magnitude(b))))
FAdd(x, y) ==
    With2(x, y,
          LAMBDA a, b :
            IF a.neg = b.neg THEN Signed(a.neg, Sum(Magnitude(a), Magnitude(b)))
            ELSE IF Magnitude(a) = Magnitude(b) THEN Zero
            ELSE IF Below(Magnitude(a), Magnitude(b))
                 THEN Signed(b.neg, Difference(Magnitude(b), Magnitude(a)))
            ELSE Signed(a.neg, Difference(Magnitude(a), Magnitude(b))))
FSub(x, y) == FAdd(x, FNeg(y))

\* x / 2
FHalf(x) == IF Magnitude(x) = NoBits THEN x ELSE [x EXCEPT !.e = x.e - 1]

FLess(x, y) ==
    IF x.neg /\ y.neg THEN Below(Magnitude(y), Magnitude(x))
    ELSE IF x.neg THEN Magnitude(x) # NoBits \/ Magnitude(y) # NoBits
    ELSE IF y.neg THEN FALSE
    ELSE Below(Magnitude(x), Magnitude(y))

FLeq(x, y) == ~FLess(y, x)

----------------------------------------------------------------------------
(* cost_calculator.py                                                      *)

\* Statistics.get_relation_stats(name)['br']: the relations the calculator
\* registers and the default for every other relation have 10 blocks.
DefaultBr == 10

\* Statistics.add_relation with br and fr given: the entry of the relation
\* is set, an older one replaced.
add_relation(relations, relation_name, nr, lr, br, fr) ==
    (relation_name :> [nr |-> nr, lr |-> lr, br |-> br, fr |-> fr,
                       distinct_values |-> <<>>])
    @@ relations

\* _init_default_statistics: the six default relations are added to the
\* Statistics object of the calculator, those it holds already being kept.
RECURSIVE _init_default_statistics(_, _)
_init_default_statistics(relations, default_relations) ==
    IF default_relations = <<>> THEN relations
    ELSE _init_default_statistics(
             IF Head(default_relations) \in DOMAIN relations THEN relations
             ELSE add_relation(relations, Head(default_relations), 1000, 100, DefaultBr, 100),
             Tail(default_relations))

default_relations ==
    <<"employees", "departments", "projects", "emp", "dept", "proj">>

\* CostCalculator(statistics): the calculator keeps the object it is given,
\* a new Statistics() if it is given none, and adds the defaults to it.
CostCalculator(relations) == _init_default_statistics(relations, default_relations)

\* The Statistics object of a calculator made without one, as PlanOptimizer
\* makes its calculator.
OwnStatistics == [injected |-> <<>>, relations |-> CostCalculator(<<>>)]

BlockCount == Float(DefaultBr, 1)

\* _calculate_table_cost
_calculate_table_cost(name) == BlockCount

\* The float literals of the calculator: 0.1, 0.2, 0.3, 0.4, 0.5, 0.9, 1.0
\* and 1.5.
Tenth == Float(1, 10)
Fifth == Float(2, 10)
ThreeTenths == Float(3, 10)
TwoFifths == Float(4, 10)
Half == Float(5, 10)
NineTenths == Float(9, 10)
One == Float(1, 1)
OneAndHalf == Float(15, 10)

\* A variant whose OR adds the two estimates.
RECURSIVE _estimate_condition_selectivity_adding(_)
_estimate_condition_selectivity_adding(c) ==
    IF c.kind = "leaf"
    THEN IF IsSubstring(<<"=">>, c.cmp) THEN Tenth
         ELSE IF IsSubstring(<<">">>, c.cmp) \/ IsSubstring(<<"<">>, c.cmp)
              THEN ThreeTenths
         ELSE Half
    ELSE With2(_estimate_condition_selectivity_adding(c.left),
               _estimate_condition_selectivity_adding(c.right),
               LAMBDA left_selectivity, right_selectivity :
                 IF c.operator = "AND" THEN FMul(left_selectivity, right_selectivity)
                 ELSE FAdd(left_selectivity, right_selectivity))

\* _estimate_condition_selectivity
RECURSIVE _estimate_condition_selectivity(_)
_estimate_condition_selectivity(c) ==
    IF c.kind = "leaf"
    THEN IF IsSubstring(<<"=">>, c.cmp) THEN Tenth
         ELSE IF IsSubstring(<<">", "=">>, c.cmp) \/ IsSubstring(<<"<", "=">>, c.cmp)
              THEN TwoFifths
         ELSE IF IsSubstring(<<">">>, c.cmp) \/ IsSubstring(<<"<">>, c.cmp)
              THEN ThreeTenths
         ELSE IF IsSubstring(<<"<", ">">>, c.cmp) \/ IsSubstring(<<"!", "=">>, c.cmp)
              THEN NineTenths
         ELSE Half
    ELSE IF c.kind = "op"
    THEN With2(_estimate_condition_selectivity(c.left),
               _estimate_condition_selectivity(c.right),
               LAMBDA left_selectivity, right_selectivity :
                 IF c.operator = "AND" THEN FMul(left_selectivity, right_selectivity)
                 ELSE IF c.operator = "OR"
                      THEN FSub(FAdd(left_selectivity, right_selectivity),
                                FMul(left_selectivity, right_selectivity))
                 ELSE FHalf(FAdd(left_selectivity, right_selectivity)))
    ELSE Half

\* _estimate_selectivity: 1.0 for None, the condition's estimate for a
\* condition expression.
_estimate_selectivity(val) ==
    IF val.kind = "none" THEN One
    ELSE _estimate_condition_selectivity(val)

\* The per-operator costs, from the costs of the children.
_calculate_select_cost(child_cost, val) == FMul(child_cost, _estimate_selectivity(val))

_calculate_project_cost(child_cost) == FAdd(child_cost, FMul(child_cost, Tenth))

_calculate_join_cost(left_cost, right_cost) ==
    FAdd(FMul(left_cost, right_cost), FMul(FAdd(left_cost, right_cost), Half))

_calculate_natural_join_cost(left_cost, right_cost) ==
    With(FAdd(left_cost, right_cost),
         LAMBDA merge_join_cost : FAdd(merge_join_cost, FMul(merge_join_cost, ThreeTenths)))

_calculate_hash_join_cost(left_cost, right_cost) ==
    With(FAdd(left_cost, right_cost),
         LAMBDA both : FAdd(both, FMul(both, Fifth)))

_calculate_cartesian_product_cost(left_cost, right_cost) == FMul(left_cost, right_cost)

_calculate_update_cost(child_cost) == FAdd(child_cost, FMul(child_cost, OneAndHalf))

_calculate_limit_cost(child_cost, val) ==
    With(Float(IF val.kind = "int" THEN val.n ELSE 100, 1000),
         LAMBDA ratio : FMul(child_cost, IF FLess(ratio, One) THEN ratio ELSE One))

\* _calculate_tree_cost, which dispatches on the node type.  The ORDER-BY
\* cost needs math.log2: trees with ORDER-BY nodes are outside this model.
RECURSIVE _calculate_tree_cost(_, _)
RECURSIVE SumCosts(_, _, _)
\* sum(cost(child) for child in childs), added from the left
SumCosts(h, cs, acc) ==
    IF cs = <<>> THEN acc
    ELSE SumCosts(h, Tail(cs), FAdd(acc, _calculate_tree_cost(h, Head(cs))))

_calculate_tree_cost(h, t) ==
    IF t = None THEN Zero
    ELSE
    LET type == h[t].type
        cs   == h[t].childs
    IN  IF type = "TABLE" THEN _calculate_table_cost(h[t].val.name)
        ELSE IF type \in {"SELECT", "PROJECT", "UPDATE", "LIMIT"} /\ cs = <<>>
             THEN Zero
        ELSE IF type = "SELECT"
             THEN With(_calculate_tree_cost(h, cs[1]),
                       LAMBDA c : _calculate_select_cost(c, h[t].val))
        ELSE IF type = "PROJECT"
             THEN With(_calculate_tree_cost(h, cs[1]), _calculate_project_cost)
        ELSE IF type = "UPDATE"
             THEN With(_calculate_tree_cost(h, cs[1]), _calculate_update_cost)
        ELSE IF type = "LIMIT"
             THEN With(_calculate_tree_cost(h, cs[1]),
                       LAMBDA c : _calculate_limit_cost(c, h[t].val))
        ELSE IF type \in {"JOIN", "NATURAL-JOIN", "HASH-JOIN", "CARTESIAN-PRODUCT"}
                /\ Len(cs) < 2
             THEN SumCosts(h, cs, Zero)
        ELSE IF type = "JOIN"
             THEN With2(_calculate_tree_cost(h, cs[1]), _calculate_tree_cost(h, cs[2]),
                        _calculate_join_cost)
        ELSE IF type = "NATURAL-JOIN"
             THEN With2(_calculate_tree_cost(h, cs[1]), _calculate_tree_cost(h, cs[2]),
                        _calculate_natural_join_cost)
        ELSE IF type = "HASH-JOIN"
             THEN With2(_calculate_tree_cost(h, cs[1]), _calculate_tree_cost(h, cs[2]),
                        _calculate_hash_join_cost)
        ELSE IF type = "CARTESIAN-PRODUCT"
             THEN With2(_calculate_tree_cost(h, cs[1]), _calculate_tree_cost(h, cs[2]),
                        _calculate_cartesian_product_cost)
        ELSE SumCosts(h, cs, Zero)

\* get_cost
get_cost(h, t) == _calculate_tree_cost(h, t)

----------------------------------------------------------------------------
(* plan_optimizer.py: the heuristic ensemble.                              *)

\* copy.deepcopy(t): new objects for everything reachable from t; an object
\* reachable twice is copied once (memo maps originals to copies).
RECURSIVE DeepCopy(_, _, _)
RECURSIVE DeepCopyAll(_, _, _, _)
DeepCopyAll(h, cs, memo, acc) ==
    IF cs = <<>> THEN [h |-> h, rs |-> acc, memo |-> memo]
    ELSE LET c == DeepCopy(h, Head(cs), memo)
         IN  DeepCopyAll(c.h, Tail(cs), c.memo, Append(acc, c.r))

DeepCopy(h, t, memo) ==
    IF t = None THEN [h |-> h, r |-> None, memo |-> memo]
    ELSE IF t \in DOMAIN memo THEN [h |-> h, r |-> memo[t], memo |-> memo]
    ELSE LET cs == DeepCopyAll(h, h[t].childs, memo, <<>>)
             n  == [type |-> h[t].type, val |-> h[t].val, childs |-> cs.rs]
         IN  [h |-> Append(cs.h, n), r |-> Len(cs.h) + 1,
              memo |-> (t :> (Len(cs.h) + 1)) @@ cs.memo]

\* A variant that hands out the object itself.
deepcopy_same_object(h, t) == [h |-> h, r |-> t]

deepcopy(h, t) == DeepCopy(h, t, <<>>)

\* The rules applied one after the other, each to the result of the one
\* before.
RECURSIVE ApplyRules(_, _, _)
Rule(id, h, t) ==
    CASE id = 0 -> push_down_selection(h, t)
      [] id = 1 -> swap_selection(h, t)
      [] id = 2 -> combine_selections(h, t)
      [] id = 3 -> push_down_projection(h, t)
      [] id = 4 -> distribute_selection_over_join(h, t)
      [] id = 5 -> combine_cartesian_with_selection(h, t)
      [] id = 6 -> reorder_joins(h, t)
      [] id = 7 -> apply_associativity(h, t)

ApplyRules(h, t, ids) ==
    IF ids = <<>> THEN [h |-> h, r |-> t]
    ELSE With(Rule(Head(ids), h, t), LAMBDA x : ApplyRules(x.h, x.r, Tail(ids)))

_generate_selection_first_plan(h, t) == ApplyRules(h, t, <<0, 1, 2, 3, 4, 5, 6, 7>>)

_generate_projection_first_plan(h, t) == ApplyRules(h, t, <<3, 0, 2, 4, 5, 6, 7>>)

_generate_balanced_plan(h, t) == ApplyRules(h, t, <<0, 1, 3, 4, 2, 5, 6, 7>>)

_generate_aggressive_combination_plan(h, t) ==
    ApplyRules(h, t, <<0, 3, 2, 4, 5, 6, 7>>)

_generate_conservative_plan(h, t) == ApplyRules(h, t, <<0, 2, 5>>)

\* A variant that swaps the selections before it decomposes them and does
\* not combine them again.
_generate_swap_first_plan(h, t) == ApplyRules(h, t, <<1, 0, 3, 4, 5, 6, 7>>)

_generate_swap_optimized_plan(h, t) == ApplyRules(h, t, <<0, 1, 2, 3, 4, 5, 6, 7>>)

Strategy(k, h, t) ==
    CASE k = 1 -> _generate_selection_first_plan(h, t)
      [] k = 2 -> _generate_projection_first_plan(h, t)
      [] k = 3 -> _generate_balanced_plan(h, t)
      [] k = 4 -> _generate_aggressive_combination_plan(h, t)
      [] k = 5 -> _generate_conservative_plan(h, t)
      [] k = 6 -> _generate_swap_optimized_plan(h, t)

\* candidate_plans: each strategy on its own deep copy of the original tree.
RECURSIVE CandidatePlans(_, _, _, _)
CandidatePlans(h, original_tree, k, acc) ==
    IF k > 6 THEN [h |-> h, plans |-> acc]
    ELSE With(deepcopy(h, original_tree),
              LAMBDA c :
                With(Strategy(k, c.h, c.r),
                     LAMBDA p : With(Append(acc, p.r),
                                     LAMBDA found : CandidatePlans(p.h, original_tree,
                                                                   k + 1, found))))

\* plan_results: each candidate with its cost
RECURSIVE PlanResults(_, _)
PlanResults(h, candidate_plans) ==
    IF candidate_plans = <<>> THEN <<>>
    ELSE <<[tree |-> Head(candidate_plans),
            cost |-> _calculate_tree_cost(h, Head(candidate_plans))]>>
         \o PlanResults(h, Tail(candidate_plans))

\* A variant that keeps the last plan of minimum cost.
RECURSIVE MinPlanLast(_, _, _)
MinPlanLast(results, i, m) ==
    IF i > Len(results) THEN m
    ELSE With(IF FLeq(results[i].cost, results[m].cost) THEN i ELSE m,
              LAMBDA m2 : MinPlanLast(results, i + 1, m2))

\* min(plan_results, key=cost): the first plan of minimum cost.
RECURSIVE MinPlan(_, _, _)
MinPlan(results, i, m) ==
    IF i > Len(results) THEN m
    ELSE With(IF FLess(results[i].cost, results[m].cost) THEN i ELSE m,
              LAMBDA m2 : MinPlan(results, i + 1, m2))

\* optimize_tree
optimize_tree(h, original_tree) ==
    With(CandidatePlans(h, original_tree, 1, <<>>),
         LAMBDA c :
           With(PlanResults(c.h, c.plans),
                LAMBDA plan_results :
                  [h |-> c.h,
                   r |-> plan_results[MinPlan(plan_results, 2, 1)].tree,
                   plans |-> plan_results]))

----------------------------------------------------------------------------
(* plan_optimizer.py: the genetic enumerator.  An individual is the tuple  *)
(* (tree, fitness, rule_sequence), here a record [tree, fitness, seq].     *)
(* Every call of the random module is a choice: an operator that stands    *)
(* for a method with random calls gives the set of its possible results.   *)
(* optimize_tree_with_genetic_algorithm leaves its loop over the           *)
(* generations in the first turn: population[0] of an empty population     *)
(* raises IndexError, and with a population the average, which unpacks     *)
(* the three-element individuals into two names, raises ValueError.  The   *)
(* methods of the loop body are modelled as the class defines them.        *)

\* _apply_rule_sequence
_apply_rule_sequence(h, tree, rule_sequence) == ApplyRules(h, tree, rule_sequence)

\* One individual: the rule sequence applied to a deep copy of the original
\* tree, and the cost of the result.
Individual(h, original_tree, rule_sequence) ==
    With(deepcopy(h, original_tree),
         LAMBDA c :
           With(_apply_rule_sequence(c.h, c.r, rule_sequence),
                LAMBDA p :
                  [h |-> p.h,
                   ind |-> [tree |-> p.r,
                            fitness |-> _calculate_tree_cost(p.h, p.r),
                            seq |-> rule_sequence]]))

\* _generate_random_rule_sequence: random.sample(range(8), n) for n in 4..8
\* gives any sequence of n different rule ids.
IsRandomRuleSequence(s) ==
    /\ Len(s) \in 4..8
    /\ \A i \in DOMAIN s : s[i] \in 0..7
    /\ \A i, j \in DOMAIN s : i # j => s[i] # s[j]

\* _initialize_population, the random rule sequences being sequences
RECURSIVE _initialize_population(_, _, _, _)
_initialize_population(h, original_tree, sequences, individuals) ==
    IF sequences = <<>> THEN [h |-> h, population |-> individuals]
    ELSE With(Individual(h, original_tree, Head(sequences)),
              LAMBDA n : _initialize_population(n.h, original_tree, Tail(sequences),
                                                Append(individuals, n.ind)))

\* list.sort(key=fitness), which is stable: x goes behind the elements that
\* do not cost more.
RECURSIVE InsertByFitness(_, _)
InsertByFitness(sorted, x) ==
    IF sorted = <<>> THEN <<x>>
    ELSE IF FLess(x.fitness, sorted[Len(sorted)].fitness)
         THEN Append(InsertByFitness(SubSeq(sorted, 1, Len(sorted) - 1), x),
                     sorted[Len(sorted)])
    ELSE Append(sorted, x)

RECURSIVE SortByFitness(_, _)
SortByFitness(individuals, sorted) ==
    IF individuals = <<>> THEN sorted
    ELSE With(InsertByFitness(sorted, Head(individuals)),
              LAMBDA done : SortByFitness(Tail(individuals), done))

\* _selection: the cheapest of a random sample of min(3, len) individuals;
\* of several cheapest ones the first in the order of the sample, which is
\* random too.  The result is given by its index in the population.
_selection(individuals) ==
    LET tournament_size == Min(3, Len(individuals))
    IN  {i \in DOMAIN individuals :
            \E selected \in SUBSET (DOMAIN individuals) :
                /\ Cardinality(selected) = tournament_size
                /\ i \in selected
                /\ \A j \in selected :
                      ~FLess(individuals[j].fitness, individuals[i].fitness)}

\* A variant that keeps every item.
_keep_duplicates(seq, result) == result \o seq

\* _remove_duplicates_preserve_order
RECURSIVE _remove_duplicates_preserve_order(_, _)
_remove_duplicates_preserve_order(seq, result) ==
    IF seq = <<>> THEN result
    ELSE _remove_duplicates_preserve_order(
             Tail(seq),
             IF Head(seq) \in Range(result) THEN result ELSE Append(result, Head(seq)))

\* _crossover: the pairs of children, one for each crossover point
_crossover(seq1, seq2) ==
    IF Min(Len(seq1), Len(seq2)) <= 1 THEN {<<seq1, seq2>>}
    ELSE {<<_remove_duplicates_preserve_order(
               SubSeq(seq1, 1, crossover_point)
                 \o SubSeq(seq2, crossover_point + 1, Len(seq2)), <<>>),
            _remove_duplicates_preserve_order(
               SubSeq(seq2, 1, crossover_point)
                 \o SubSeq(seq1, crossover_point + 1, Len(seq1)), <<>>)>> :
            crossover_point \in 1..(Min(Len(seq1), Len(seq2)) - 1)}

\* _mutate: a swap of two positions, a removal or an insertion of a rule
\* that the sequence lacks; a mutation type whose condition fails leaves the
\* sequence as it is.
_mutate(rule_sequence) ==
    LET \* list.pop(idx) and list.insert(pos, x), positions counted from 1
        Pop(s, idx) == SubSeq(s, 1, idx - 1) \o SubSeq(s, idx + 1, Len(s))
        Insert(s, pos, x) == SubSeq(s, 1, pos - 1) \o <<x>> \o SubSeq(s, pos, Len(s))
    IN
    IF rule_sequence = <<>> THEN {<<r>> : r \in 0..7}
    ELSE (IF Len(rule_sequence) >= 2
          THEN {[rule_sequence EXCEPT ![idx[1]] = rule_sequence[idx[2]],
                                      ![idx[2]] = rule_sequence[idx[1]]] :
                  idx \in {i \in (DOMAIN rule_sequence) \X (DOMAIN rule_sequence) :
                             i[1] # i[2]}}
          ELSE {rule_sequence})
         \cup (IF Len(rule_sequence) > 1
               THEN {Pop(rule_sequence, idx) : idx \in DOMAIN rule_sequence}
               ELSE {rule_sequence})
         \cup (IF Len(rule_sequence) < 8 /\ (0..7) \ Range(rule_sequence) # {}
               THEN {Insert(rule_sequence, insert_pos, new_rule) :
                       insert_pos \in 1..(Len(rule_sequence) + 1),
                       new_rule \in (0..7) \ Range(rule_sequence)}
               ELSE {rule_sequence})

\* if random.random() < mutation_rate: seq = _mutate(seq), random.random()
\* being any float of [0, 1)
MaybeMutated(rule_sequence, mutation_rate) ==
    (IF FLess(Zero, mutation_rate) THEN _mutate(rule_sequence) ELSE {})
    \cup (IF FLess(mutation_rate, One) THEN {rule_sequence} ELSE {})

----------------------------------------------------------------------------
(* The input trees.                                                        *)

\* How many rules are applied one after the other to an input tree.
MaxSteps == 2

\* The longest chain of SELECT nodes with atomic conditions in an input
\* tree.
MaxChain == 3

\* Relation names: "a" is a substring of "ab".
tA  == <<"a">>
tAB == <<"a", "b">>
tC  == <<"c">>

aX  == Attr(tA, "x")
abY == Attr(tAB, "y")
cZ  == Attr(tC, "z")
kU  == Attr(<<>>, "k")

\* a.x = 1, c.z > 5, ab.y >= 2, k = 1 (no qualified identifier), a.x = c.z,
\* a.x > c.z
eqA    == ConditionLeaf(<<aX>>, <<"=">>)
gtC    == ConditionLeaf(<<cZ>>, <<">">>)
geAB   == ConditionLeaf(<<abY>>, <<">", "=">>)
eqK    == ConditionLeaf(<<>>, <<"=">>)
joinAC == ConditionLeaf(<<aX, cZ>>, <<"=">>)
gtAC   == ConditionLeaf(<<aX, cZ>>, <<">">>)

And(l, r) == ConditionOperator("AND", l, r)
Or(l, r)  == ConditionOperator("OR", l, r)

\* Conditions of one to four atoms, left- and right-leaning, of atoms that
\* go below a join and of atoms that stay above it.
Conditions ==
    {eqA, Or(eqA, gtC),
     And(eqA, gtC), And(gtC, eqK), And(Or(eqA, gtC), geAB),
     And(And(eqA, gtC), geAB), And(eqA, And(gtC, geAB)), And(And(gtC, eqA), gtC),
     And(And(eqA, gtC), And(joinAC, eqK)), And(gtAC, And(joinAC, joinAC))}

Node(type, val, childs) == [type |-> type, val |-> val, childs |-> childs]

Table(name) == Node("TABLE", NameVal(name), <<>>)

Tables == {Table(tA), Table(tAB), Table(tC)}

Join(l, r) == Node("JOIN", joinAC, <<l, r>>)

\* Two-child nodes over two different tables.
Joins ==
    ({Join(l, r) : l, r \in Tables} \ {Join(t, t) : t \in Tables})
    \cup {Node("NATURAL-JOIN", NoVal, <<Table(tA), Table(tC)>>),
          Node("CARTESIAN-PRODUCT", NoVal, <<Table(tA), Table(tC)>>),
          Node("HASH-JOIN", joinAC, <<Table(tA), Table(tC)>>)}

\* What a SELECT of the input stands above.
SelectTargets ==
    {Table(tA), Join(Table(tA), Table(tC)), Join(Table(tA), Table(tAB)),
     Node("NATURAL-JOIN", NoVal, <<Table(tA), Table(tC)>>),
     Node("CARTESIAN-PRODUCT", NoVal, <<Table(tA), Table(tC)>>)}

\* Chains of n SELECT nodes with atomic conditions over a table.
RECURSIVE Chains(_)
Chains(n) ==
    IF n = 0 THEN {Table(tA)}
    ELSE {Node("SELECT", c, <<t>>) : c \in {eqA, gtC}, t \in Chains(n - 1)}

\* Conjunctive SELECT nodes below the root: below another SELECT, below a
\* join, below a LIMIT or an UPDATE.
Nested ==
    LET inner == {Node("SELECT", c, <<Table(tA)>>) :
                    c \in {And(gtC, eqK), And(And(eqA, gtC), geAB)}}
    IN  {Node("SELECT", c, <<t>>) :
            c \in {And(eqA, gtC), And(Or(eqA, gtC), geAB)}, t \in inner}
        \cup {Join(t, Table(tC)) : t \in inner \cup {Node("SELECT", eqA, <<Table(tA)>>)}}
        \cup {Node("SELECT", And(eqA, gtC), <<Join(t, Table(tC))>>) :
                t \in inner \cup {Node("SELECT", eqA, <<Table(tA)>>)}}
        \cup {Node(ty, IntVal(5), <<t>>) : ty \in {"LIMIT", "UPDATE"}, t \in inner}
        \cup {Node("SELECT", And(eqA, gtC), <<Node("LIMIT", IntVal(5), <<t>>)>>) :
                t \in inner}

\* A left-deep join of three tables.
DeepJoin == Join(Node("JOIN", ConditionLeaf(<<aX, abY>>, <<"=">>),
                      <<Table(tA), Table(tAB)>>),
                 Table(tC))

Projections == {ListVal(<<aX>>), ListVal(<<cZ, aX>>), ListVal(<<kU, abY>>)}

\* Trees with a PROJECT node.
Projected ==
    {Node("PROJECT", p, <<t>>) :
        p \in Projections,
        t \in {Join(Table(tA), Table(tC)), DeepJoin,
               Node("NATURAL-JOIN", NoVal, <<Table(tA), Table(tC)>>),
               Node("HASH-JOIN", joinAC, <<Table(tA), Table(tC)>>)}}
    \cup {Node("PROJECT", p, <<Node("SELECT", c, <<t>>)>>) :
            p \in {ListVal(<<cZ, aX>>)},
            c \in {And(eqA, gtC), And(geAB, gtC)},
            t \in {Join(Table(tA), Table(tC)), DeepJoin}}

\* The tree of the three-way join scenario: the aliases s, d and p stand for
\* the relations students, departments and projects.
tStudents    == <<"s", "t", "u", "d", "e", "n", "t", "s">>
tDepartments == <<"d", "e", "p", "a", "r", "t", "m", "e", "n", "t", "s">>
tProjects    == <<"p", "r", "o", "j", "e", "c", "t", "s">>

sName        == Attr(<<"s">>, "name")
dDeptName    == Attr(<<"d">>, "dept_name")
pProjectName == Attr(<<"p">>, "project_name")
sAgeAttr     == Attr(<<"s">>, "age")
dBudgetAttr  == Attr(<<"d">>, "budget")
sDeptId      == Attr(<<"s">>, "dept_id")
dId          == Attr(<<"d">>, "id")
sProjectId   == Attr(<<"s">>, "project_id")
pId          == Attr(<<"p">>, "id")

\* s.age > 20 and d.budget > 100000
sAge    == ConditionLeaf(<<sAgeAttr>>, <<">">>)
dBudget == ConditionLeaf(<<dBudgetAttr>>, <<">">>)

S2 ==
    Node("PROJECT", ListVal(<<sName, dDeptName, pProjectName>>),
         <<Node("SELECT", And(sAge, dBudget),
                <<Node("JOIN", ConditionLeaf(<<sProjectId, pId>>, <<"=">>),
                       <<Node("JOIN", ConditionLeaf(<<sDeptId, dId>>, <<"=">>),
                              <<Table(tStudents), Table(tDepartments)>>),
                         Table(tProjects)>>)>>)>>)

\* The attributes of S2 that a projection list can hold, in one order.
S2Order == <<sName, dDeptName, pProjectName, sProjectId, pId, sDeptId, dId>>

\* The comparisons of a condition leaf: =, <>, !=, <=, >=, <, >, LIKE and IN.
Comparisons ==
    {<<"=">>, <<"<", ">">>, <<"!", "=">>, <<"<", "=">>, <<">", "=">>, <<"<">>,
     <<">">>, <<"L", "I", "K", "E">>, <<"I", "N">>}

\* A SELECT with one comparison over a table.
Leaves ==
    {Node("SELECT", ConditionLeaf(<<aX>>, c), <<Table(tA)>>) : c \in Comparisons}

\* LIMIT nodes with integer values, below and above the 1000 that the limit
\* cost divides by.
LimitValues == {0 - 5, 0, 5, 2000}

Limits ==
    {Node("LIMIT", IntVal(n), <<t>>) :
        n \in LimitValues,
        t \in {Table(tA), Join(Table(tA), Table(tC)),
               Node("SELECT", eqA, <<Join(Table(tA), Table(tC))>>)}}

InputTrees ==
    Joins
    \cup Leaves
    \cup Limits
    \cup {S2}
    \cup UNION {Chains(n) : n \in 2..MaxChain}
    \cup {Node("SELECT", c, <<t>>) : c \in Conditions, t \in SelectTargets}
    \cup Nested
    \cup Projected

\* The attributes that occur, in the orders a set of strings may iterate in.
AllAttrs == {aX, abY, cZ, kU}

Orderings(S) ==
    {f \in [1..Cardinality(S) -> S] : \A i, j \in 1..Cardinality(S) :
                                         i # j => f[i] # f[j]}

\* Only the projection helper iterates over a set, and it runs only below a
\* PROJECT node: for a tree without one, one order stands for all.  Of the
\* orders of the seven attributes of S2 two are taken.
HashOrders(v) ==
    IF v \in Projected THEN Orderings(AllAttrs)
    ELSE IF v = S2 THEN {S2Order, Reverse(S2Order)}
    ELSE {<<aX, abY, cZ, kU>>}

----------------------------------------------------------------------------
(* The state machine: an input tree from the front-end, then rules applied *)
(* to it one after the other, or one run of the heuristic ensemble.        *)
(* prevHeap/prevRoot and prev2Heap/prev2Root hold the tree as it was       *)
(* before the last operation and before the last two.                      *)

Init ==
    \E v \in InputTrees :
        \E ord \in HashOrders(v) :
            LET b == Build(<<>>, v)
            IN  /\ heap = b.h
                /\ root = b.r
                /\ hashOrder = ord
                /\ prevHeap = b.h
                /\ prevRoot = b.r
                /\ prev2Heap = b.h
                /\ prev2Root = b.r
                /\ last = "init"
                /\ last2 = "init"
                /\ steps = 0
                /\ best = None
                /\ plans = <<>>
                /\ cost = NoVal
                /\ selectivity = NoVal
                /\ params = NoVal
                /\ population = <<>>
                /\ children = <<>>
                /\ statistics = OwnStatistics

\* tree = rule(tree)
Apply(name, result) ==
    /\ steps < MaxSteps
    /\ last \notin {"optimize_tree", "get_cost"}
    /\ \E tree \in {result} :
          /\ heap' = tree.h
          /\ root' = tree.r
    /\ prevHeap' = heap
    /\ prevRoot' = root
    /\ prev2Heap' = prevHeap
    /\ prev2Root' = prevRoot
    /\ last' = name
    /\ last2' = last
    /\ steps' = steps + 1
    /\ UNCHANGED <<hashOrder, best, plans, cost, selectivity, genetic, statistics>>

PushDownSelection == Apply("push_down_selection", push_down_selection(heap, root))

SwapSelection == Apply("swap_selection", swap_selection(heap, root))

CombineSelections == Apply("combine_selections", combine_selections(heap, root))

PushDownProjection == Apply("push_down_projection", push_down_projection(heap, root))

DistributeSelectionOverJoin ==
    Apply("distribute_selection_over_join", distribute_selection_over_join(heap, root))

CombineCartesianWithSelection ==
    Apply("combine_cartesian_with_selection",
          combine_cartesian_with_selection(heap, root))

ReorderJoins == Apply("reorder_joins", reorder_joins(heap, root))

ApplyAssociativity == Apply("apply_associativity", apply_associativity(heap, root))

DistributeProjectionOverJoin ==
    Apply("distribute_projection_over_join",
          distribute_projection_over_join(heap, root))

\* optimize_query(parsed_query) on the front-end's tree
OptimizeTree ==
    /\ steps = 0
    /\ last = "init"
    /\ \E o \in {optimize_tree(heap, root)} :
          /\ heap' = o.h
          /\ best' = o.r
          /\ plans' = o.plans
    /\ prevHeap' = heap
    /\ prevRoot' = root
    /\ prev2Heap' = prevHeap
    /\ prev2Root' = prevRoot
    /\ last' = "optimize_tree"
    /\ last2' = last
    /\ UNCHANGED <<root, hashOrder, steps, cost, selectivity, genetic, statistics>>

\* get_cost(parsed_query) on the current tree
GetCost ==
    /\ last \notin {"optimize_tree", "get_cost"}
    /\ cost' = get_cost(heap, root)
    /\ selectivity' = IF heap[root].type = "SELECT" /\ heap[root].childs # <<>>
                      THEN _estimate_selectivity(heap[root].val)
                      ELSE NoVal
    /\ prevHeap' = heap
    /\ prevRoot' = root
    /\ prev2Heap' = prevHeap
    /\ prev2Root' = prevRoot
    /\ last' = "get_cost"
    /\ last2' = last
    /\ UNCHANGED <<heap, root, hashOrder, steps, best, plans, genetic, statistics>>

Next ==
    \/ PushDownSelection
    \/ SwapSelection
    \/ CombineSelections
    \/ PushDownProjection
    \/ DistributeSelectionOverJoin
    \/ CombineCartesianWithSelection
    \/ ReorderJoins
    \/ ApplyAssociativity
    \/ DistributeProjectionOverJoin
    \/ OptimizeTree
    \/ GetCost

Spec == Init /\ [][Next]_vars

----------------------------------------------------------------------------
(* The genetic enumerator as a state machine: a call of                    *)
(* optimize_tree_with_genetic_algorithm on an input tree, the population   *)
(* initialised, then the first turn of the loop or, without generations,   *)
(* the return.  A step that raises leaves the name of the exception in     *)
(* last.  _crossover and _mutate act on the population as the loop body    *)
(* calls them.                                                             *)

\* The trees given to the genetic enumerator.
GeneticTrees ==
    {Node("SELECT", eqA, <<Node("SELECT", gtC, <<Table(tA)>>)>>),
     Node("SELECT", And(eqA, gtC), <<Join(Table(tA), Table(tC))>>),
     Node("PROJECT", ListVal(<<aX>>), <<Join(Table(tA), Table(tC))>>)}

\* The arguments of the call: population_size, iterations, mutation_rate.
GeneticParams ==
    {[population_size |-> n[1], iterations |-> n[2], mutation_rate |-> r] :
        n \in {<<0, 0>>, <<0, 1>>, <<1, 0>>, <<1, 1>>, <<2, 0>>, <<2, 1>>},
        r \in {Zero, One}}
    \cup {[population_size |-> 1, iterations |-> 20, mutation_rate |-> ThreeTenths]}

\* The outcomes of _generate_random_rule_sequence that are taken.
RuleSequences == {<<0, 1, 2, 3>>, <<3, 2, 1, 0>>, <<4, 0, 2, 6, 3, 7>>}

InitGenetic ==
    \E v \in GeneticTrees, p \in GeneticParams :
        LET b == Build(<<>>, v)
        IN  /\ heap = b.h
            /\ root = b.r
            /\ hashOrder = <<aX, abY, cZ, kU>>
            /\ prevHeap = b.h
            /\ prevRoot = b.r
            /\ prev2Heap = b.h
            /\ prev2Root = b.r
            /\ last = "init"
            /\ last2 = "init"
            /\ steps = 0
            /\ best = None
            /\ plans = <<>>
            /\ cost = NoVal
            /\ selectivity = NoVal
            /\ params = p
            /\ population = <<>>
            /\ children = <<>>
            /\ statistics = OwnStatistics

history == <<root, hashOrder, prevHeap, prevRoot, prev2Heap, prev2Root, last2,
             steps, plans, cost, selectivity, params, statistics>>

\* population = self._initialize_population(original_tree, population_size)
InitializePopulation ==
    /\ last = "init"
    /\ \E sequences \in [1..params.population_size -> RuleSequences] :
          (\A i \in DOMAIN sequences : IsRandomRuleSequence(sequences[i]))
          /\ \E p \in {_initialize_population(heap, root, sequences, <<>>)} :
                /\ heap' = p.h
                /\ population' = p.population
    /\ last' = "_initialize_population"
    /\ UNCHANGED <<history, best, children>>

\* The first turn of the loop over the generations: the population is
\* sorted, then population[0] raises IndexError if there is no individual,
\* and else the unpacking `for _, f in population` raises ValueError.
Generation ==
    /\ last = "_initialize_population"
    /\ params.iterations > 0
    /\ population' = SortByFitness(population, <<>>)
    /\ last' = IF population = <<>> THEN "IndexError" ELSE "ValueError"
    /\ UNCHANGED <<history, heap, best, children>>

\* Without generations: the population sorted and the tree of
\* population[0] returned in a ParsedQuery.
Return ==
    /\ last = "_initialize_population"
    /\ params.iterations = 0
    /\ population' = SortByFitness(population, <<>>)
    /\ IF population = <<>>
       THEN /\ last' = "IndexError"
            /\ UNCHANGED best
       ELSE /\ best' = population'[1].tree
            /\ last' = "optimize_tree_with_genetic_algorithm"
    /\ UNCHANGED <<history, heap, children>>

\* parent1 = _selection(population); parent2 = _selection(population);
\* child1_rule_seq, child2_rule_seq = _crossover(parent1[2], parent2[2]),
\* which the loop body does after population[0]
Crossover ==
    /\ last = "_initialize_population"
    /\ population # <<>>
    /\ \E parent1 \in _selection(population), parent2 \in _selection(population) :
          children' \in _crossover(population[parent1].seq, population[parent2].seq)
    /\ last' = "_crossover"
    /\ UNCHANGED <<history, heap, best, population>>

\* if random.random() < mutation_rate: child_rule_seq = _mutate(child_rule_seq),
\* for the first child and for the second
Mutate ==
    /\ last = "_crossover"
    /\ \E child1_rule_seq \in MaybeMutated(children[1], params.mutation_rate),
          child2_rule_seq \in MaybeMutated(children[2], params.mutation_rate) :
          children' = <<child1_rule_seq, child2_rule_seq>>
    /\ last' = "_mutate"
    /\ UNCHANGED <<history, heap, best, population>>

NextGenetic ==
    \/ InitializePopulation
    \/ Generation
    \/ Return
    \/ Crossover
    \/ Mutate

SpecGenetic == InitGenetic /\ [][NextGenetic]_vars

\* One call of optimize_tree_with_genetic_algorithm run to its end: once the
\* population is initialised the interpreter goes on to the loop over the
\* generations, or to the return when there is none (weak fairness of both).
NextCall ==
    \/ InitializePopulation
    \/ Generation
    \/ Return

SpecGeneticCall ==
    InitGenetic /\ [][NextCall]_vars /\ WF_vars(Generation) /\ WF_vars(Return)

----------------------------------------------------------------------------
(* The two enumerators on the same input trees: a call of optimize_tree,   *)
(* or a call of optimize_tree_with_genetic_algorithm without generations.  *)

\* population_size, iterations, mutation_rate of the calls that return
EnumerateParams ==
    {[population_size |-> 2, iterations |-> 0, mutation_rate |-> ThreeTenths]}

InitEnumerate ==
    \E v \in InputTrees, p \in EnumerateParams :
        \E ord \in HashOrders(v) :
            LET b == Build(<<>>, v)
            IN  /\ heap = b.h
                /\ root = b.r
                /\ hashOrder = ord
                /\ prevHeap = b.h
                /\ prevRoot = b.r
                /\ prev2Heap = b.h
                /\ prev2Root = b.r
                /\ last = "init"
                /\ last2 = "init"
                /\ steps = 0
                /\ best = None
                /\ plans = <<>>
                /\ cost = NoVal
                /\ selectivity = NoVal
                /\ params = p
                /\ population = <<>>
                /\ children = <<>>
                /\ statistics = OwnStatistics

NextEnumerate ==
    \/ OptimizeTree
    \/ InitializePopulation
    \/ Return

SpecEnumerate == InitEnumerate /\ [][NextEnumerate]_vars

----------------------------------------------------------------------------
(* A calculator made with a Statistics object of the caller, then a cost.  *)

\* The relations of the Statistics objects handed to the calculator: none,
\* a relation of the trees, one of the default names.  Each has 10 blocks,
\* as the relations have that the calculator adds.
InjectedStatistics ==
    {<<>>,
     add_relation(<<>>, "a", 500, 50, DefaultBr, 50),
     add_relation(<<>>, "employees", 500, 50, DefaultBr, 50)}

InitStatistics ==
    \E v \in Leaves \cup Limits \cup Joins, r \in InjectedStatistics :
        LET b == Build(<<>>, v)
        IN  /\ heap = b.h
            /\ root = b.r
            /\ hashOrder = <<aX, abY, cZ, kU>>
            /\ prevHeap = b.h
            /\ prevRoot = b.r
            /\ prev2Heap = b.h
            /\ prev2Root = b.r
            /\ last = "init"
            /\ last2 = "init"
            /\ steps = 0
            /\ best = None
            /\ plans = <<>>
            /\ cost = NoVal
            /\ selectivity = NoVal
            /\ params = NoVal
            /\ population = <<>>
            /\ children = <<>>
            /\ statistics = [injected |-> r, relations |-> r]

\* calculator = CostCalculator(statistics)
NewCostCalculator ==
    /\ last = "init"
    /\ statistics' = [statistics EXCEPT !.relations = CostCalculator(statistics.relations)]
    /\ last' = "CostCalculator"
    /\ UNCHANGED <<heap, root, hashOrder, prevHeap, prevRoot, prev2Heap, prev2Root,
                   last2, steps, best, plans, cost, selectivity, genetic>>

NextStatistics ==
    \/ NewCostCalculator
    \/ (last = "CostCalculator" /\ GetCost)

SpecStatistics == InitStatistics /\ [][NextStatistics]_vars

----------------------------------------------------------------------------
(* Properties.                                                             *)

\* The tree below object t as a value: structural equality of two trees is
\* equality of their values.
RECURSIVE Canon(_, _)
Canon(h, t) ==
    IF t = None THEN [type |-> "None"]
    ELSE [type   |-> h[t].type,
          val    |-> h[t].val,
          childs |-> [i \in 1..Len(h[t].childs) |-> Canon(h, h[t].childs[i])]]

\* The object ids met by a traversal from t, one entry per path.
RECURSIVE Visit(_, _)
RECURSIVE VisitAll(_, _)
VisitAll(h, cs) ==
    IF cs = <<>> THEN <<>> ELSE Visit(h, Head(cs)) \o VisitAll(h, Tail(cs))

Visit(h, t) == IF t = None THEN <<>> ELSE <<t>> \o VisitAll(h, h[t].childs)

\* No object is reachable from t along two different paths.
NoSharing(h, t) ==
    LET v == Visit(h, t) IN Cardinality(Range(v)) = Len(v)

\* How many TABLE nodes named name a traversal from t meets.
RECURSIVE TableCount(_, _, _)
RECURSIVE TableCountAll(_, _, _)
TableCountAll(h, cs, name) ==
    IF cs = <<>> THEN 0
    ELSE TableCount(h, Head(cs), name) + TableCountAll(h, Tail(cs), name)

TableCount(h, t, name) ==
    IF t = None THEN 0
    ELSE (IF h[t].type = "TABLE" /\ h[t].val = NameVal(name) THEN 1 ELSE 0)
         + TableCountAll(h, h[t].childs, name)

TableNames == {tA, tAB, tC, tStudents, tDepartments, tProjects}

\* The tables of the tree at t in h are those of the tree at u in g, with
\* their multiplicities.
SameTables(h, t, g, u) ==
    \A name \in TableNames : TableCount(h, t, name) = TableCount(g, u, name)

\* The last operation was a rule.
IsRule ==
    last \in {"push_down_selection", "swap_selection", "combine_selections",
              "push_down_projection", "distribute_selection_over_join",
              "combine_cartesian_with_selection", "reorder_joins",
              "apply_associativity"}

\* The tree before the last operation, and its root node.
Before == Canon(prevHeap, prevRoot)
BeforeRoot == prevHeap[prevRoot]

\* The atoms of a condition: what is left when it is cut at its AND
\* operators, from left to right.
RECURSIVE AndAtoms(_)
AndAtoms(c) ==
    IF c.kind = "op" /\ c.operator = "AND" THEN AndAtoms(c.left) \o AndAtoms(c.right)
    ELSE <<c>>

\* C1: the tree optimize_tree returns costs no more than the input tree.
C1_OptimizedCostAtMostInput ==
    last = "optimize_tree"
        => FLeq(_calculate_tree_cost(heap, best), _calculate_tree_cost(prevHeap, prevRoot))

\* C2: the tree optimize_tree returns has the TABLE names of the input tree,
\* each as often as the input has it.
C2_OptimizeKeepsTables ==
    last = "optimize_tree" => SameTables(heap, best, prevHeap, prevRoot)

\* C3: a rule returns a tree with the TABLE names of the tree it was given,
\* each as often.
C3_RuleKeepsTables ==
    IsRule => SameTables(heap, root, prevHeap, prevRoot)

\* C4: a rule applied to a tree without a shared node returns a tree
\* without a shared node.
C4_RuleKeepsTreeUnshared ==
    IsRule /\ NoSharing(prevHeap, prevRoot) => NoSharing(heap, root)

\* C5: combine_selections applied to its own result returns an equal tree.
C5_CombineSelectionsIdempotent ==
    last = "combine_selections" /\ last2 = "combine_selections"
        => Canon(heap, root) = Before

\* C6: push_down_projection applied to its own result returns an equal
\* tree.
C6_PushDownProjectionIdempotent ==
    last = "push_down_projection" /\ last2 = "push_down_projection"
        => Canon(heap, root) = Before

\* C7: push_down_selection applied to its own result returns an equal tree.
C7_PushDownSelectionIdempotent ==
    last = "push_down_selection" /\ last2 = "push_down_selection"
        => Canon(heap, root) = Before

\* push_down_selection has run twice and its first run changed the tree.
C7_Witness ==
    /\ last = "push_down_selection"
    /\ last2 = "push_down_selection"
    /\ Before # Canon(prev2Heap, prev2Root)

\* The node reached from t by n steps to the first child.
RECURSIVE Descend(_, _, _)
Descend(h, t, n) == IF n = 0 THEN t ELSE Descend(h, h[t].childs[1], n - 1)

\* From t down there are Len(atoms) SELECT nodes with one child each, the
\* i-th carrying atoms[i].
IsChain(h, t, atoms) ==
    \A i \in 1..Len(atoms) :
        LET n == Descend(h, t, i - 1)
        IN  /\ h[n].type = "SELECT"
            /\ h[n].val = atoms[i]
            /\ Len(h[n].childs) = 1

\* push_down_selection was applied to a SELECT with one child and a
\* condition of two atoms or more.
C8_Case ==
    /\ last = "push_down_selection"
    /\ BeforeRoot.type = "SELECT"
    /\ Len(BeforeRoot.childs) = 1
    /\ Len(AndAtoms(BeforeRoot.val)) >= 2

\* No SELECT node from t down has an AND condition.
RECURSIVE NoConjunctiveSelect(_, _)
NoConjunctiveSelect(h, t) ==
    /\ h[t].type = "SELECT" => Len(AndAtoms(h[t].val)) = 1
    /\ \A i \in DOMAIN h[t].childs : NoConjunctiveSelect(h, h[t].childs[i])

\* C8 as stated: push_down_selection turns a SELECT of k >= 2 atoms into a
\* chain of k SELECT nodes, one atom each in the order of the condition, an
\* OR kept whole, above the original child.
C8_DecompositionAboveOriginalChild ==
    C8_Case =>
        LET atoms == AndAtoms(BeforeRoot.val)
        IN  /\ IsChain(heap, root, atoms)
            /\ Canon(heap, Descend(heap, root, Len(atoms)))
                   = Canon(prevHeap, BeforeRoot.childs[1])

\* C8: push_down_selection turns a SELECT of k >= 2 atoms into a chain of k
\* SELECT nodes, one atom each in the order of the condition, an OR kept
\* whole, above what it returns for the child of the SELECT: the child
\* itself, unchanged, when no SELECT in it has an AND condition.
C8_DecompositionIsChainOfAtoms ==
    C8_Case =>
        LET atoms == AndAtoms(BeforeRoot.val)
            child == BeforeRoot.childs[1]
            below == push_down_selection(prevHeap, child)
            under == Descend(heap, root, Len(atoms))
        IN  /\ IsChain(heap, root, atoms)
            /\ Canon(heap, under) = Canon(below.h, below.r)
            /\ NoConjunctiveSelect(prevHeap, child) =>
                  /\ under = child
                  /\ Canon(heap, under) = Canon(prevHeap, child)

\* The case of C8 with an OR among the atoms, above a child that has a
\* SELECT with an AND condition.
C8_Witness ==
    /\ C8_Case
    /\ \E i \in DOMAIN AndAtoms(BeforeRoot.val) :
          AndAtoms(BeforeRoot.val)[i].kind = "op"
    /\ ~NoConjunctiveSelect(prevHeap, BeforeRoot.childs[1])

\* combine_selections was applied to what push_down_selection returned for
\* a SELECT with the condition AND(a, b), a and b atoms, above a node that is
\* no SELECT.
C9_Case ==
    /\ last = "combine_selections"
    /\ last2 = "push_down_selection"
    /\ prev2Heap[prev2Root].type = "SELECT"
    /\ Len(prev2Heap[prev2Root].childs) = 1
    /\ prev2Heap[prev2Heap[prev2Root].childs[1]].type # "SELECT"
    /\ prev2Heap[prev2Root].val.kind = "op"
    /\ prev2Heap[prev2Root].val.operator = "AND"
    /\ Len(AndAtoms(prev2Heap[prev2Root].val)) = 2

AllBelong(atom, h, t) ==
    \A a \in _get_attributes_from_condition(atom) :
        _attribute_belongs_to(a, _get_attributes_from_tree(h, t))

\* The join below the SELECT the last rule was applied to, and its children.
JoinBefore == prevHeap[BeforeRoot.childs[1]]
LeftBefore == JoinBefore.childs[1]
RightBefore == JoinBefore.childs[2]

\* The atoms of the SELECT that go to the left child, to the right child,
\* and those that stay.
LeftAtoms ==
    SelectSeq(AndAtoms(BeforeRoot.val),
              LAMBDA c : AllBelong(c, prevHeap, LeftBefore)
                         /\ ~AllBelong(c, prevHeap, RightBefore))
RightAtoms ==
    SelectSeq(AndAtoms(BeforeRoot.val),
              LAMBDA c : AllBelong(c, prevHeap, RightBefore)
                         /\ ~AllBelong(c, prevHeap, LeftBefore))
StayingAtoms ==
    SelectSeq(AndAtoms(BeforeRoot.val),
              LAMBDA c : AllBelong(c, prevHeap, LeftBefore)
                         <=> AllBelong(c, prevHeap, RightBefore))

\* t is a SELECT of exactly these atoms above a tree equal to v or, with no
\* atoms, t is a tree equal to v.
IsSelectOf(h, t, atoms, v) ==
    IF atoms = <<>> THEN Canon(h, t) = v
    ELSE /\ h[t].type = "SELECT"
         /\ AndAtoms(h[t].val) = atoms
         /\ Len(h[t].childs) = 1
         /\ Canon(h, h[t].childs[1]) = v

\* distribute_selection_over_join was applied to a SELECT above a JOIN or
\* NATURAL-JOIN with two children.
C10_Case ==
    /\ last = "distribute_selection_over_join"
    /\ BeforeRoot.type = "SELECT"
    /\ Len(BeforeRoot.childs) = 1
    /\ JoinBefore.type \in {"JOIN", "NATURAL-JOIN"}
    /\ Len(JoinBefore.childs) = 2

SelectAboveTable(h, t, atom, name) ==
    \E n \in Range(Visit(h, t)) :
        /\ h[n].type = "SELECT"
        /\ atom \in Range(AndAtoms(h[n].val))
        /\ Len(h[n].childs) = 1
        /\ h[h[n].childs[1]].type = "TABLE"
        /\ h[h[n].childs[1]].val = NameVal(name)

\* The six strategies have run on the tree S2.
C11_Case ==
    /\ last = "optimize_tree"
    /\ Canon(prevHeap, prevRoot) = S2

\* C11: on the tree S2 at least one of the six strategies returns a tree
\* with a SELECT of s.age > 20 directly above TABLE students and a SELECT of
\* d.budget > 100000 directly above TABLE departments.
C11_SomeStrategyPushesSelectionsToTables ==
    C11_Case =>
        \E k \in DOMAIN plans :
            /\ SelectAboveTable(heap, plans[k].tree, sAge, tStudents)
            /\ SelectAboveTable(heap, plans[k].tree, dBudget, tDepartments)

\* The SELECT nodes met from t down along first children, outermost first,
\* and the node below them.
RECURSIVE SelectsFrom(_, _)
SelectsFrom(h, t) ==
    IF h[t].type = "SELECT" /\ Len(h[t].childs) >= 1
    THEN <<t>> \o SelectsFrom(h, h[t].childs[1])
    ELSE <<>>

BelowSelects(h, t) == Descend(h, t, Len(SelectsFrom(h, t)))

\* The PROJECT the last rule was applied to: its list L, the join below its
\* chain of SELECT nodes, the children A and B of the join and the
\* attributes J of the join condition.
ListBefore == ProjectAttrs(BeforeRoot.val)
SelectsBefore == SelectsFrom(prevHeap, BeforeRoot.childs[1])
JoinBelow == BelowSelects(prevHeap, BeforeRoot.childs[1])
SideA == prevHeap[JoinBelow].childs[1]
SideB == prevHeap[JoinBelow].childs[2]
JoinAttributes == _get_attributes_from_condition(prevHeap[JoinBelow].val)

FromA(a) == _attribute_belongs_to(a, _get_attributes_from_tree(prevHeap, SideA))
FromB(a) == _attribute_belongs_to(a, _get_attributes_from_tree(prevHeap, SideB))

\* L1: the attributes of L from A, and those from neither side; L2: those
\* from B only; L3 and L4: the join attributes of a side that its list lacks.
ListL1 == {a \in Range(ListBefore) : FromA(a) \/ ~FromB(a)}
ListL2 == {a \in Range(ListBefore) : ~FromA(a) /\ FromB(a)}
ListL3 == {a \in JoinAttributes : FromA(a)} \ ListL1
ListL4 == {a \in JoinAttributes : FromB(a)} \ ListL2

\* distribute_projection_over_join was applied to a PROJECT above a chain
\* of SELECT nodes (none, or more) above a JOIN or NATURAL-JOIN with two
\* children.
C12_Case ==
    /\ last = "distribute_projection_over_join"
    /\ BeforeRoot.type = "PROJECT"
    /\ Len(BeforeRoot.childs) >= 1
    /\ prevHeap[JoinBelow].type \in {"JOIN", "NATURAL-JOIN"}
    /\ Len(prevHeap[JoinBelow].childs) = 2

\* t is a PROJECT of exactly the attributes S, each once, above a tree equal
\* to v.
IsProjectOf(h, t, S, v) ==
    /\ h[t].type = "PROJECT"
    /\ Range(ProjectAttrs(h[t].val)) = S
    /\ Len(ProjectAttrs(h[t].val)) = Cardinality(S)
    /\ Len(h[t].childs) = 1
    /\ Canon(h, h[t].childs[1]) = v

\* The result has the outer PROJECT[L] exactly when L3 or L4 has an
\* attribute, then the SELECT chain as it was, then the join with its type
\* and condition; top is the node below the outer PROJECT.
ResultTop ==
    IF ListL3 \cup ListL4 # {} THEN heap[root].childs[1] ELSE root

OuterProjectAndChainKept ==
    /\ ListL3 \cup ListL4 # {} =>
          /\ heap[root].type = "PROJECT"
          /\ ProjectAttrs(heap[root].val) = ListBefore
          /\ Len(heap[root].childs) = 1
    /\ ListL3 \cup ListL4 = {} =>
          heap[root].type # "PROJECT"
    /\ Len(SelectsFrom(heap, ResultTop)) = Len(SelectsBefore)
    /\ \A i \in DOMAIN SelectsBefore :
          /\ heap[SelectsFrom(heap, ResultTop)[i]].val = prevHeap[SelectsBefore[i]].val
          /\ Len(heap[SelectsFrom(heap, ResultTop)[i]].childs) = 1
    /\ heap[BelowSelects(heap, ResultTop)].type = prevHeap[JoinBelow].type
    /\ heap[BelowSelects(heap, ResultTop)].val = prevHeap[JoinBelow].val
    /\ Len(heap[BelowSelects(heap, ResultTop)].childs) = 2

ResultLeft == heap[BelowSelects(heap, ResultTop)].childs[1]
ResultRight == heap[BelowSelects(heap, ResultTop)].childs[2]

CrossAtoms ==
    SelectSeq(AndAtoms(BeforeRoot.val),
              LAMBDA c :
                /\ \E a \in _get_attributes_from_condition(c) :
                      _attribute_belongs_to(a, _get_attributes_from_tree(prevHeap, LeftBefore))
                /\ \E a \in _get_attributes_from_condition(c) :
                      _attribute_belongs_to(a, _get_attributes_from_tree(prevHeap, RightBefore)))

\* combine_cartesian_with_selection was applied to a SELECT over a
\* CARTESIAN-PRODUCT of two children, with an atom over both.
C13_Case ==
    /\ last = "combine_cartesian_with_selection"
    /\ BeforeRoot.type = "SELECT"
    /\ Len(BeforeRoot.childs) = 1
    /\ JoinBefore.type = "CARTESIAN-PRODUCT"
    /\ Len(JoinBefore.childs) = 2
    /\ CrossAtoms # <<>>

\* C13: combine_cartesian_with_selection applied to a SELECT over
\* CARTESIAN-PRODUCT(A, B) with an atom over attributes of both returns a
\* tree where the product is replaced by a JOIN of A and B whose condition
\* is the conjunction of those atoms.
C13_ProductBecomesJoin ==
    C13_Case =>
        /\ \A n \in Range(Visit(heap, root)) : heap[n].type # "CARTESIAN-PRODUCT"
        /\ \E n \in Range(Visit(heap, root)) :
              /\ heap[n].type = "JOIN"
              /\ AndAtoms(heap[n].val) = CrossAtoms
              /\ Len(heap[n].childs) = 2
              /\ Canon(heap, heap[n].childs[1]) = Canon(prevHeap, LeftBefore)
              /\ Canon(heap, heap[n].childs[2]) = Canon(prevHeap, RightBefore)

\* get_cost was applied to a SELECT whose condition is one comparison.
C14_Case ==
    /\ last = "get_cost"
    /\ heap[root].type = "SELECT"
    /\ heap[root].childs # <<>>
    /\ heap[root].val.kind = "leaf"

\* The selectivity that the table of comparisons gives.
TableSelectivity(cmp) ==
    IF cmp = <<"=">> THEN Float(10, 100)
    ELSE IF cmp \in {<<"<", ">">>, <<"!", "=">>} THEN Float(90, 100)
    ELSE IF cmp \in {<<"<", "=">>, <<">", "=">>} THEN Float(40, 100)
    ELSE IF cmp \in {<<"<">>, <<">">>} THEN Float(30, 100)
    ELSE IF cmp = <<"L", "I", "K", "E">> THEN Float(20, 100)
    ELSE Float(50, 100)

\* C14: the selectivity of a leaf with a single comparison is 0.10 for =,
\* 0.90 for <> and !=, 0.40 for <= and >=, 0.30 for < and >, 0.20 for LIKE
\* and 0.50 for anything else.
C14_LeafSelectivityFollowsTable ==
    C14_Case => selectivity = TableSelectivity(heap[root].val.cmp)

\* The conditions below c, c included.
RECURSIVE SubConditions(_)
SubConditions(c) ==
    IF c.kind = "op" THEN {c} \cup SubConditions(c.left) \cup SubConditions(c.right)
    ELSE {c}

\* get_cost was applied to a SELECT whose condition is built from leaves,
\* AND and OR, with an operator at the top.
C15_Case ==
    /\ last = "get_cost"
    /\ heap[root].type = "SELECT"
    /\ heap[root].childs # <<>>
    /\ heap[root].val.kind = "op"
    /\ \A c \in SubConditions(heap[root].val) :
          c.kind = "op" => c.operator \in {"AND", "OR"}

\* C15: the selectivity of AND(a, b) is sel(a) * sel(b) and that of OR(a, b)
\* is sel(a) + sel(b) - sel(a) * sel(b), so that (x = 1) OR (y > 5) has
\* 0.37, and the selectivity of every condition built from leaves, AND and
\* OR lies in [0, 1].
C15_SelectivityComposes ==
    C15_Case =>
        LET c == heap[root].val
            a == _estimate_condition_selectivity(c.left)
            b == _estimate_condition_selectivity(c.right)
        IN  /\ c.operator = "AND" => selectivity = FMul(a, b)
            /\ c.operator = "OR" => selectivity = FSub(FAdd(a, b), FMul(a, b))
            /\ c = Or(eqA, gtC) => selectivity = Float(37, 100)
            /\ FLeq(Zero, selectivity) /\ FLeq(selectivity, One)
            /\ \A d \in SubConditions(c) :
                  /\ FLeq(Zero, _estimate_condition_selectivity(d))
                  /\ FLeq(_estimate_condition_selectivity(d), One)

\* The case of C15 for (a.x = 1) OR (c.z > 5).
C15_Witness ==
    /\ C15_Case
    /\ heap[root].val = Or(eqA, gtC)
    /\ selectivity = Float(37, 100)

\* C16: get_cost returns a non-negative number for every tree, whatever the
\* operator tags and node values, any integer LIMIT value included.
C16_CostNonNegative ==
    last = "get_cost" => FLeq(Zero, cost)

\* The strategies of the ensemble, by index: Selection-First,
\* Projection-First, Balanced, Aggressive, Conservative, Swap-Optimized.
Strategies == 1..6

\* The index of the plan that optimize_tree returned.
Chosen == CHOOSE k \in DOMAIN plans : plans[k].tree = best

\* C20: the ensemble returns the candidate of minimum cost among the six
\* strategies and, of several with that cost, the one of the strategy with
\* the lowest index.
C20_FirstMinimumWins ==
    last = "optimize_tree" =>
        /\ DOMAIN plans = Strategies
        /\ \E k \in Strategies : plans[k].tree = best
        /\ \A j \in Strategies : FLeq(plans[Chosen].cost, plans[j].cost)
        /\ \A j \in Strategies : j < Chosen => FLess(plans[Chosen].cost, plans[j].cost)

\* Two strategies share the minimum cost, a strategy before them costs
\* more, and the plan returned is that of the first of the two.
C20_Witness ==
    /\ last = "optimize_tree"
    /\ Chosen > 1
    /\ \E j \in Strategies : j > Chosen /\ plans[j].cost = plans[Chosen].cost

\* A chromosome as the enumerator defines it: rule ids of 0..7, none twice,
\* between 4 and 8 of them.
IsChromosome(s) ==
    /\ Len(s) \in 4..8
    /\ \A i \in DOMAIN s : s[i] \in 0..7
    /\ \A i, j \in DOMAIN s : i # j => s[i] # s[j]

\* C17: for every input tree, every outcome of the random choices, every
\* population size of at least 1 and every number of generations, the tree
\* that optimize_tree_with_genetic_algorithm returns costs no more than the
\* input tree.
C17_GeneticCostAtMostInput ==
    (last = "optimize_tree_with_genetic_algorithm" /\ params.population_size >= 1) =>
        FLeq(_calculate_tree_cost(heap, best), _calculate_tree_cost(heap, root))

\* C18: every chromosome of the population, initial or after crossover,
\* de-duplication and mutation, is a sequence of rule ids of 0..7 without
\* duplicates, of a length between 4 and 8.
C18_PopulationOfChromosomes ==
    /\ \A i \in DOMAIN population : IsChromosome(population[i].seq)
    /\ \A i \in DOMAIN children : IsChromosome(children[i])

\* C19: the enumerator never raises: for any non-negative population size
\* and number of generations and any mutation rate of [0, 1] the call
\* completes and returns a ParsedQuery.
C19_GeneticNeverRaises ==
    /\ params.population_size >= 0
    /\ params.iterations >= 0
    /\ FLeq(Zero, params.mutation_rate) /\ FLeq(params.mutation_rate, One)
    => last \notin {"IndexError", "ValueError"}

\* The trees of the candidates: the plans of the heuristic strategies, or
\* the individuals of the population.
Candidates ==
    IF last = "optimize_tree" THEN [k \in DOMAIN plans |-> plans[k].tree]
    ELSE [k \in DOMAIN population |-> population[k].tree]

\* The nodes of the tree at t.
Nodes(h, t) == IF t = None THEN {} ELSE Range(Visit(h, t))

\* C21: every candidate plan is built on its own deep copy of the input
\* tree: after optimize_tree or optimize_tree_with_genetic_algorithm
\* returns, the input tree is structurally unchanged, and no node of the
\* returned tree is a node of the input tree or of another candidate's tree.
C21_CandidatesOnOwnCopies ==
    last \in {"optimize_tree", "optimize_tree_with_genetic_algorithm"} =>
        /\ Canon(heap, root) = Canon(prevHeap, prevRoot)
        /\ Nodes(heap, best) \cap Nodes(heap, root) = {}
        /\ \A k \in DOMAIN Candidates :
              Candidates[k] # best =>
                  Nodes(heap, best) \cap Nodes(heap, Candidates[k]) = {}
        /\ \A j, k \in DOMAIN Candidates :
              j # k => /\ Nodes(heap, Candidates[j]) \cap Nodes(heap, Candidates[k]) = {}
                       /\ Nodes(heap, Candidates[k]) \cap Nodes(heap, root) = {}

\* An enumerator returned a tree that its rules changed, one of several
\* candidates.
C21_Witness ==
    /\ last \in {"optimize_tree", "optimize_tree_with_genetic_algorithm"}
    /\ Len(Candidates) >= 2
    /\ Canon(heap, best) # Canon(heap, root)
    /\ \E k \in DOMAIN Candidates : Canon(heap, Candidates[k]) # Canon(heap, best)

\* C22: the core only reads the statistics provider: making a calculator
\* with a Statistics object and computing costs leaves the relations of
\* that object and their values as they were before.
C22_StatisticsOnlyRead ==
    statistics.relations = statistics.injected

\* The number of children that the tag of a node requires.
RequiredChildren(type) ==
    IF type = "TABLE" THEN 0
    ELSE IF type \in {"JOIN", "NATURAL-JOIN", "HASH-JOIN", "CARTESIAN-PRODUCT"} THEN 2
    ELSE 1

\* Every node of the tree at t has the child count of its tag.
WellFormed(h, t) ==
    \A n \in Nodes(h, t) : Len(h[n].childs) = RequiredChildren(h[n].type)

\* A rule function was applied to a tree with the required child counts.
C23_Case ==
    /\ IsRule \/ last = "distribute_projection_over_join"
    /\ WellFormed(prevHeap, prevRoot)

\* C23: after any single rule function applied to a tree in which every
\* node has the child count of its tag, every node of the returned tree,
\* those the rule created included, has the child count of its tag.
C23_RuleKeepsChildCounts ==
    C23_Case => WellFormed(heap, root)

\* The case of C23 where the rule returned a tree with nodes it created.
C23_Witness ==
    /\ C23_Case
    /\ Len(heap) > Len(prevHeap)
    /\ \E n \in Nodes(heap, root) : n > Len(prevHeap) /\ heap[n].type \in {"SELECT", "PROJECT"}


\* No SELECT directly above a SELECT anywhere in the tree at t.
NoSelectPair(h, t) ==
    \A n \in Nodes(h, t) :
        h[n].type = "SELECT" =>
            \A i \in DOMAIN h[n].childs : h[h[n].childs[i]].type # "SELECT"

\* The subtree T of sigma_a(sigma_b(T)) at t.
Below2(h, t) == h[h[t].childs[1]].childs[1]

\* swap_selection has just been applied to sigma_a(sigma_b(T)), where T holds
\* no further pair of adjacent SELECT nodes (T itself may be a SELECT).
C24_Case ==
    /\ last = "swap_selection"
    /\ prevHeap[prevRoot].type = "SELECT"
    /\ prevHeap[prevHeap[prevRoot].childs[1]].type = "SELECT"
    /\ NoSelectPair(prevHeap, Below2(prevHeap, prevRoot))

\* C24: swap_selection applied to sigma_a(sigma_b(T)) returns
\* sigma_b(sigma_a(T)) for every T, also when T is itself a SELECT: the two
\* top conditions are exchanged and T stays as it was below them.
C24_SwapExchangesTopTwo ==
    C24_Case =>
        /\ heap[root].type = "SELECT"
        /\ heap[root].val = prevHeap[prevHeap[prevRoot].childs[1]].val
        /\ heap[heap[root].childs[1]].type = "SELECT"
        /\ heap[heap[root].childs[1]].val = prevHeap[prevRoot].val
        /\ Canon(heap, Below2(heap, root))
               = Canon(prevHeap, Below2(prevHeap, prevRoot))


\* The individuals of least fitness among the given ones.
Fittest(individuals) ==
    {k \in DOMAIN individuals :
        \A j \in DOMAIN individuals :
            FLeq(individuals[k].fitness, individuals[j].fitness)}

\* The generations and the return of the genetic search, from a population
\* of at least one individual: the step that follows _initialize_population
\* in a call.
C25_Case ==
    /\ last = "_initialize_population"
    /\ population # <<>>
    /\ last' # "_crossover"

\* C25: elitism: the least fitness of the population never increases from
\* one generation to the next, the best individual of each sorted population
\* being carried into the next, and the tree returned is an individual whose
\* fitness is the least of the final population.
C25_Elitism ==
    [][C25_Case =>
         /\ last' = "optimize_tree_with_genetic_algorithm"
         /\ \E k \in Fittest(population') :
               /\ population'[k].tree = best'
               /\ \A j \in Fittest(population) :
                     FLeq(population'[k].fitness, population[j].fitness)]_vars


\* C26: the genetic search terminates: for a population size of at least 1
\* the call finishes its generations and returns, with exactly
\* population_size individuals in the population.
C26_GeneticSearchFinishes ==
    (last = "_initialize_population" /\ params.population_size >= 1)
        ~> (/\ last = "optimize_tree_with_genetic_algorithm"
            /\ Len(population) = params.population_size)


\* Exact arithmetic: the decimal number m / 10^k, negated if neg, for a
\* natural number m of any size (limbs) and a natural number k.  Every
\* literal of the calculator is such a number, and sums, differences and
\* products of such numbers are.
Abs(n) == IF n < 0 THEN 0 - n ELSE n

Exact(n, k) == [m |-> Carry(<<Abs(n)>>, 0), k |-> k, neg |-> n < 0]

RECURSIVE PowerOfTen(_)
PowerOfTen(k) == IF k = 0 THEN <<1>> ELSE BMul(PowerOfTen(k - 1), <<10>>)

\* the natural number a.m * 10^(k - a.k), for k >= a.k
Scaled(a, k) == BMul(a.m, PowerOfTen(k - a.k))

BLess(a, b) == BLessFrom(a, b, Max(Len(a), Len(b)))

QMul(a, b) == [m |-> BMul(a.m, b.m), k |-> a.k + b.k, neg |-> a.neg # b.neg]

QAdd(a, b) ==
    LET k == Max(a.k, b.k)
        x == Scaled(a, k)
        y == Scaled(b, k)
    IN  IF a.neg = b.neg THEN [m |-> BAdd(x, y), k |-> k, neg |-> a.neg]
        ELSE IF BLess(x, y) THEN [m |-> BSub(y, x), k |-> k, neg |-> b.neg]
        ELSE [m |-> BSub(x, y), k |-> k, neg |-> a.neg]

QSub(a, b) == QAdd(a, [b EXCEPT !.neg = ~b.neg])

QIsZero(a) == Top(a.m) = 0

QEqual(a, b) == QIsZero(QSub(a, b))

QLess(a, b) == LET d == QSub(a, b) IN ~QIsZero(d) /\ d.neg

\* _estimate_condition_selectivity and _estimate_selectivity, the literals
\* and the operations taken exactly.
RECURSIVE ExactSelectivity(_)
ExactSelectivity(c) ==
    IF c.kind = "none" THEN Exact(1, 0)
    ELSE IF c.kind = "leaf"
    THEN IF IsSubstring(<<"=">>, c.cmp) THEN Exact(1, 1)
         ELSE IF IsSubstring(<<">", "=">>, c.cmp) \/ IsSubstring(<<"<", "=">>, c.cmp)
              THEN Exact(4, 1)
         ELSE IF IsSubstring(<<">">>, c.cmp) \/ IsSubstring(<<"<">>, c.cmp)
              THEN Exact(3, 1)
         ELSE IF IsSubstring(<<"<", ">">>, c.cmp) \/ IsSubstring(<<"!", "=">>, c.cmp)
              THEN Exact(9, 1)
         ELSE Exact(5, 1)
    ELSE IF c.kind = "op"
    THEN LET l == ExactSelectivity(c.left)
             r == ExactSelectivity(c.right)
         IN  IF c.operator = "AND" THEN QMul(l, r)
             ELSE IF c.operator = "OR" THEN QSub(QAdd(l, r), QMul(l, r))
             ELSE QMul(QAdd(l, r), Exact(5, 1))
    ELSE Exact(5, 1)

\* _calculate_tree_cost, the literals and the operations taken exactly.
RECURSIVE ExactCost(_, _)
RECURSIVE ExactSum(_, _, _)
ExactSum(h, cs, acc) ==
    IF cs = <<>> THEN acc
    ELSE ExactSum(h, Tail(cs), QAdd(acc, ExactCost(h, Head(cs))))

ExactCost(h, t) ==
    IF t = None THEN Exact(0, 0)
    ELSE
    LET type == h[t].type
        cs   == h[t].childs
        c1   == ExactCost(h, cs[1])
        c2   == ExactCost(h, cs[2])
        both == QAdd(c1, c2)
        ratio == Exact(IF h[t].val.kind = "int" THEN h[t].val.n ELSE 100, 3)
    IN  IF type = "TABLE" THEN Exact(DefaultBr, 0)
        ELSE IF type \in {"SELECT", "PROJECT", "UPDATE", "LIMIT"} /\ cs = <<>>
             THEN Exact(0, 0)
        ELSE IF type = "SELECT" THEN QMul(c1, ExactSelectivity(h[t].val))
        ELSE IF type = "PROJECT" THEN QAdd(c1, QMul(c1, Exact(1, 1)))
        ELSE IF type = "UPDATE" THEN QAdd(c1, QMul(c1, Exact(15, 1)))
        ELSE IF type = "LIMIT"
             THEN QMul(c1, IF QLess(ratio, Exact(1, 0)) THEN ratio ELSE Exact(1, 0))
        ELSE IF type \in {"JOIN", "NATURAL-JOIN", "HASH-JOIN", "CARTESIAN-PRODUCT"}
                /\ Len(cs) < 2
             THEN ExactSum(h, cs, Exact(0, 0))
        ELSE IF type = "JOIN" THEN QAdd(QMul(c1, c2), QMul(both, Exact(5, 1)))
        ELSE IF type = "NATURAL-JOIN" THEN QAdd(both, QMul(both, Exact(3, 1)))
        ELSE IF type = "HASH-JOIN" THEN QAdd(both, QMul(both, Exact(2, 1)))
        ELSE IF type = "CARTESIAN-PRODUCT" THEN QMul(c1, c2)
        ELSE ExactSum(h, cs, Exact(0, 0))

\* One of the three selection rules has just been applied.
C27_Case == last \in {"push_down_selection", "swap_selection", "combine_selections"}

\* C27: the selection rules are cost-neutral: in exact arithmetic the
\* estimated cost of push_down_selection(T), of swap_selection(T) and of
\* combine_selections(T) equals the estimated cost of T.
C27_SelectionRulesCostNeutral ==
    C27_Case => QEqual(ExactCost(heap, root), ExactCost(prevHeap, prevRoot))

\* One of the three rules has changed a tree whose selections do select.
C27_Witness ==
    /\ C27_Case
    /\ Canon(heap, root) # Canon(prevHeap, prevRoot)
    /\ QLess(Exact(0, 0), ExactCost(heap, root))
    /\ \E n \in Nodes(heap, root) :
          /\ heap[n].type = "SELECT"
          /\ heap[n].val.kind = "op"
          /\ heap[n].val.operator = "OR"


\* The join that distribute_selection_over_join returns for the case of
\* C10, below the SELECT of the staying atoms if there is one.
JoinAfter == heap[IF StayingAtoms = <<>> THEN root ELSE heap[root].childs[1]]

\* distribute_selection_over_join has moved atoms (each of a selectivity
\* below 1) below the join, to a side whose other side has a positive cost.
C28_Moved ==
    /\ C10_Case
    /\ \/ /\ LeftAtoms # <<>>
          /\ FLess(Zero, _calculate_tree_cost(heap, JoinAfter.childs[2]))
       \/ /\ RightAtoms # <<>>
          /\ FLess(Zero, _calculate_tree_cost(heap, JoinAfter.childs[1]))

\* C28: selection push-down never lowers the estimate: the estimated cost
\* of distribute_selection_over_join(T) is at least that of T, and greater
\* when an atom of selectivity below 1 has been moved below a JOIN or
\* NATURAL-JOIN whose other child has a positive cost.
C28_PushDownNeverLowersEstimate ==
    last = "distribute_selection_over_join" =>
        /\ FLeq(_calculate_tree_cost(prevHeap, prevRoot),
                _calculate_tree_cost(heap, root))
        /\ C28_Moved =>
              FLess(_calculate_tree_cost(prevHeap, prevRoot),
                    _calculate_tree_cost(heap, root))


\* C29: Selection-First and Swap-Optimized apply the same sequence of rules:
\* their trees are structurally equal and of equal cost for every input, and
\* optimize_tree never returns the Swap-Optimized plan.
C29_SwapOptimizedNeverSelected ==
    last = "optimize_tree" =>
        /\ Canon(heap, plans[1].tree) = Canon(heap, plans[6].tree)
        /\ plans[1].cost = plans[6].cost
        /\ best # plans[6].tree

\* The Swap-Optimized plan differs from the input and no plan costs less.
C29_Witness ==
    /\ last = "optimize_tree"
    /\ Canon(heap, plans[6].tree) # Canon(prevHeap, prevRoot)
    /\ \A k \in DOMAIN plans : FLeq(plans[6].cost, plans[k].cost)
    /\ \E k \in DOMAIN plans : Canon(heap, plans[k].tree) # Canon(heap, plans[6].tree)


\* A sequence of one to eight rule ids of 0..7, none of them twice.
IsRuleSequence(s) ==
    /\ Len(s) \in 1..8
    /\ \A i \in DOMAIN s : s[i] \in 0..7
    /\ \A i, j \in DOMAIN s : i # j => s[i] # s[j]

\* The cost of the rule sequence applied to a fresh copy of the tree.
FitnessOf(h, original_tree, rule_sequence) ==
    With(deepcopy(h, original_tree),
         LAMBDA c : With(ApplyRules(c.h, c.r, rule_sequence),
                         LAMBDA p : _calculate_tree_cost(p.h, p.r)))

====
